---- MODULE Spec2Model ----
(***************************************************************************)
(* Audio scheduling, caption timing, synthesis retry and capture pipeline  *)
(* of Audiobook-Maker-AI (src/App.tsx, src/services/geminiService.ts).     *)
(*                                                                         *)
(* Times of the audio clock are whole ticks.  Caption times are binary     *)
(* floating-point numbers, as JavaScript numbers are, with a significand   *)
(* of MantissaBits bits; they are carried as integers, in units of         *)
(* 2^-FracBits of a second.                                                *)
(***************************************************************************)
EXTENDS Integers, Sequences, FiniteSets, TLC

(***************************************************************************)
(* Bounds of the model.                                                    *)
(***************************************************************************)
MaxClock == 2
MaxChunks == 2
MaxDur == 2
MaxStops == 1
MaxFragments == 2
MaxRecordings == 2
MaxDeliveries == 3
MaxLen == 5
MaxSeconds == 2
MantissaBits == 9
MaxImages == 3
MaxSceneClock == 6
MaxPcmDuration == 4
TicksPerSecond == 2
MaxFrames == 2
MaxQueue == 2
MaxReadAlouds == 3
MaxErrors == 1
MaxStartCalls == 1
MaxMp3Chunks == 2
MaxLiveStarts == 2
MaxSegmentCalls == 3
MaxLines == 5
\* The render frame in small: the particle cap (200 in the source), the
\* canvas height in pixels, the shortest life (60 frames in the source) and
\* the longest extra life in frames.
MaxParticles == 4
CanvasHeight == 4
BaseLife == 2
MaxExtraLife == 1
MaxToggles == 2

VARIABLES
    \* ---- playback scheduler (App.tsx) ----
    currentTime,                \* audioContext.currentTime
    audioContextState,          \* audioContext.state
    nextStartTime,              \* nextStartTimeRef.current
    sourceNodes,                \* sourceNodesRef.current: ids of live sources
    resumeWaiters,              \* playAudioBuffer calls suspended at await resume()
    endedPending,               \* stopped sources whose 'ended' event is still queued
    isAudiobookPlaying,
    audiobookScrollStartTime,   \* audiobookScrollStartTimeRef.current
    lastSceneChangeTimestamp,   \* lastSceneChangeTimestampRef.current
    currentHighlightedLineIndex,
    currentHighlightedWordIndex,
    currentAudiobookSceneIndex,
    \* ---- history of the scheduler, read by the properties only ----
    started,                    \* every source.start(): chunk, start, dur, at, epochs
    submitted,                  \* number of playAudioBuffer calls so far
    stops,                      \* number of stopAllAudio calls so far
    cursorAtStop,               \* nextStartTime just before the last stopAllAudio
    finishedSignals,            \* runs of the playback-finished side effects so far
    emptyings,                  \* times a set holding an audiobook source became empty
    stoppedSources,             \* sources on which stop() was called
    disconnectedSources,        \* sources on which disconnect() was called
    \* ---- generateTextToSpeech (geminiService.ts) ----
    ttsPc,                      \* "idle", "attempt", "waiting", "returned", "threw"
    attempts,
    audioBuffers,               \* fragments decoded so far: <<attempt, position>>
    ttsStreamed,                \* fragments the running attempt has streamed
    ttsWaits,                   \* the setTimeout delays awaited so far, in ms
    ttsResult,                  \* the list returned to the caller
    ttsError,                   \* the error thrown to the caller
    ttsOutcomes,                \* history: how each finished attempt ended
    \* ---- capture pipeline (App.tsx) ----
    isPlayingVideo,
    isRecordingVideo,
    isLoading,
    error,                      \* the message set by setError, by its cause
    selectedVideoCodec,
    mediaRecorder,              \* mediaRecorderRef.current: [state, codec]
    recordedChunks,             \* recordedChunksRef.current: the sizes of the blobs
    delivered,                  \* history: the sizes delivered to this recording
    effectsDue,                 \* a commit changed isRecordingVideo: effects to run
    savesPending,               \* onstop handlers suspended in the save-picker awaits
    hasSavePicker,              \* 'showSaveFilePicker' in globalThis
    recordedBlob,               \* the blob built by onstop for this recording
    recordings,                 \* number of recordings started so far
    lastStop,                   \* history: what onstop saw and did for this recording
    \* ---- caption timing (App.tsx) ----
    textInput,                  \* the text, a sequence of characters
    totalAudiobookDuration,     \* the summed duration of the audio buffers
    audiobookLinesWithTiming,   \* the line segments, <<>> before segmentation
    segmented,                  \* segmentTextForKaraoke has run
    captionTime,                \* currentTime of the latest caption lookup
    currentLineIndex,           \* result of the latest lookup, -1 for none
    currentWordIndex,
    linesToDisplayIndices,      \* the caption window of the latest lookup, indices from 0
    \* ---- scene crossfade (App.tsx) ----
    audiobookSceneImageCount,   \* audiobookSceneImageUrls.length
    audiobookFadeState,         \* audiobookFadeStateRef.current, NoFade for null
    audiobookPcmDuration,       \* summed duration of audiobookPcmBuffersRef.current
    sceneFrames,                \* history: frames drawn in this session, up to MaxFrames
    loopSceneIndex,             \* currentAudiobookSceneIndex as the running animate sees it
    previousLoadedAudiobookImage, \* previousLoadedAudiobookImageRef.current: the scene
                                \* whose image it holds, NoImage for null
    fadeDrawn,                  \* history: the opacities drawn by the latest frame
    \* ---- audiobook session (App.tsx, handleReadAloud and handleApiError) ----
    audiobookPcmBuffers,        \* audiobookPcmBuffersRef.current: the chunks' durations
    isAudiobookPlaybackPaused,
    isAudiobookGenerating,
    readAlouds,                 \* history: clicks of the read-aloud button so far
    lastPause,                  \* history: the last pause
    lastResume,                 \* history: the last resume
    errorsReported,             \* history: handleApiError calls so far
    \* ---- export settings (App.tsx) ----
    selectedVideoResolution,
    selectedVideoBitrate,
    startCalls,                 \* history: calls of startRecordingVideo so far
    \* ---- MP3 export (audioUtils.ts, encodePCMToMP3) ----
    mp3Pc,                      \* position in encodePCMToMP3
    mp3Input,                   \* audioBuffers: the length of each chunk
    lameLoaded,                 \* typeof globalThis.Lame !== 'undefined'
    frameStart,                 \* i of the encoding loop
    mp3data,                    \* sizes of the pieces kept for the blob
    encodedByteCount,
    mp3Result,                  \* how the promise was settled
    fedFrames,                  \* history: the frames passed to lame.encodeBuffer
    encoderOutputs,             \* history: sizes returned by encodeBuffer and flush
    flushes,                    \* history: calls of lame.flush
    \* ---- live conversation (App.tsx) ----
    livePc,                     \* position of startLiveConversation, or "unmounted"
    liveSession,                \* liveSessionRef.current: "none" or "open"
    isLiveSessionActive,
    microphoneStream,           \* microphoneStreamRef.current holds live tracks
    scriptProcessor,            \* scriptProcessorRef.current is connected
    liveStarts,                 \* history: calls of startLiveConversation so far
    teardown,                   \* history: the steps of the last stop, in order
    \* ---- calls of segmentTextForKaraoke (App.tsx) ----
    timeOffsetLeft,             \* overallTimeOffset as the last call left it
    segmentCalls,               \* history: text, duration and result of each call
    \* ---- render loop (App.tsx) ----
    effects,                    \* the five effect toggles as committed
    animationFrameId,           \* animationFrameIdRef.current, NoFrame for null
    framePending,               \* a requested frame is still to be run
    loopEffects,                \* the toggles in the closure of the running animate
    particles,                  \* particlesRef.current
    sineColorHue,               \* the waveform hue of the latest frame, NoHue for none
    toggleClicks,               \* history: clicks on the effect checkboxes so far
    previewPc                   \* handlePreviewVoice: "idle" or "generating"

\* The scheduler's variables but isAudiobookPlaying, which the capture
\* pipeline reads and handleApiError clears.
schedRest == <<currentTime, audioContextState, nextStartTime, sourceNodes,
               resumeWaiters, endedPending,
               audiobookScrollStartTime, lastSceneChangeTimestamp,
               currentHighlightedLineIndex, currentHighlightedWordIndex,
               currentAudiobookSceneIndex, started, submitted, stops, cursorAtStop,
               finishedSignals, emptyings,
                   stoppedSources, disconnectedSources>>

schedVars == <<schedRest, isAudiobookPlaying>>

recVars == <<isPlayingVideo, isRecordingVideo, isLoading, error, selectedVideoCodec,
             mediaRecorder, recordedChunks, delivered, effectsDue, savesPending, hasSavePicker,
             recordedBlob, recordings, lastStop>>

ttsVars == <<ttsPc, attempts, audioBuffers, ttsStreamed, ttsWaits, ttsResult, ttsError,
             ttsOutcomes>>

segVars == <<textInput, totalAudiobookDuration, audiobookLinesWithTiming, segmented,
             captionTime, currentLineIndex, currentWordIndex,
             linesToDisplayIndices>>

sceneVars == <<audiobookSceneImageCount, audiobookFadeState, audiobookPcmDuration,
               sceneFrames, loopSceneIndex, previousLoadedAudiobookImage, fadeDrawn>>

readRest == <<audiobookPcmBuffers, readAlouds, lastPause, lastResume, errorsReported>>

readVars == <<readRest, isAudiobookPlaybackPaused, isAudiobookGenerating>>

configVars == <<selectedVideoResolution, selectedVideoBitrate, startCalls>>

mp3Vars == <<mp3Pc, mp3Input, lameLoaded, frameStart, mp3data, encodedByteCount,
             mp3Result, fedFrames, encoderOutputs, flushes>>

\* The scheduler's variables that the scene crossfade neither reads nor writes.
schedOther == <<audioContextState, nextStartTime, sourceNodes, resumeWaiters,
                endedPending, audiobookScrollStartTime, currentHighlightedLineIndex,
                currentHighlightedWordIndex, started, submitted, stops, cursorAtStop,
                finishedSignals, emptyings,
                   stoppedSources, disconnectedSources>>

liveVars == <<livePc, liveSession, isLiveSessionActive, microphoneStream, scriptProcessor,
              liveStarts, teardown>>

callVars == <<timeOffsetLeft, segmentCalls>>

\* The voice preview.
previewVars == <<previewPc>>

\* The render loop: what the frames draw with, and the loop itself.
drawVars == <<effects, particles, sineColorHue, toggleClicks>>
loopVars == <<animationFrameId, framePending, loopEffects>>

vars == <<schedVars, ttsVars, recVars, segVars, sceneVars, readVars, configVars, mp3Vars,
          liveVars, callVars, previewVars, drawVars, loopVars>>

\* What the actions of one component leave alone.
nonSched == <<ttsVars, recVars, segVars, sceneVars, readVars, configVars, mp3Vars,
                   liveVars, callVars, previewVars, drawVars, loopVars>>
nonTts == <<schedVars, recVars, segVars, sceneVars, readVars, configVars, mp3Vars,
                   liveVars, callVars, previewVars, drawVars, loopVars>>
nonRec == <<schedRest, ttsVars, segVars, sceneVars, readVars, configVars, mp3Vars,
                   liveVars, callVars, previewVars, drawVars>>
\* What handleApiError leaves alone outside the capture pipeline.
nonApiError == <<schedRest, ttsVars, segVars, sceneVars, readRest, mp3Vars, liveVars, callVars, previewVars, drawVars>>
nonSeg == <<schedVars, ttsVars, recVars, sceneVars, readVars, configVars, mp3Vars,
                   liveVars, callVars, previewVars, drawVars, loopVars>>
nonScene == <<schedOther, ttsVars, recVars, segVars, readVars, configVars, mp3Vars,
                   liveVars, callVars, previewVars, drawVars, loopVars>>

Max(a, b) == IF a >= b THEN a ELSE b
Min(a, b) == IF a <= b THEN a ELSE b

(***************************************************************************)
(* Playback scheduler.                                                     *)
(***************************************************************************)
SchedInit ==
    /\ currentTime = 0
    /\ audioContextState \in {"suspended", "running"}
    /\ nextStartTime = 0
    /\ sourceNodes = {}
    /\ resumeWaiters = <<>>
    /\ endedPending = {}
    /\ isAudiobookPlaying = FALSE
    /\ audiobookScrollStartTime = 0
    /\ lastSceneChangeTimestamp = 0
    /\ currentHighlightedLineIndex = -1
    /\ currentHighlightedWordIndex = -1
    /\ currentAudiobookSceneIndex = 0
    /\ started = <<>>
    /\ submitted = 0
    /\ stops = 0
    /\ cursorAtStop = -1
    /\ finishedSignals = 0
    /\ emptyings = 0
    /\ stoppedSources = {}
    /\ disconnectedSources = {}

\* The continuations of resumed playAudioBuffer calls run as consecutive
\* microtasks: no handler of another task runs before the last of them.
Draining == audioContextState = "running" /\ resumeWaiters # <<>>

\* Mutant: the chunk is pinned to its own arrival time.
playStart_arrival(cursor, now) == now

\* source.start(when): the time the source is scheduled to begin.
playStart(cursor, now) == Max(cursor, now)

\* Mutant: the cursor is set to the chunk's duration, as if it started at 0.
playCursor_durationOnly(startAt, dur) == dur

\* Mutant: the cursor is not advanced by the chunk's duration.
playCursor_noAdvance(startAt, dur) == startAt

\* nextStartTimeRef.current = nextStartTimeRef.current + buffer.duration
playCursor(startAt, dur) == startAt + dur

\* playAudioBuffer from the line after the resume await to its end; resumed
\* tells whether the call had to wait for the device.
Schedule(call, resumed) ==
    LET startAt == playStart(nextStartTime, currentTime)
        id == Len(started) + 1
    IN  /\ started' = Append(started,
              [chunk |-> call.chunk, start |-> startAt, dur |-> call.dur,
               at |-> currentTime, audiobook |-> call.audiobook,
               resumed |-> resumed, subEpoch |-> call.subEpoch, epoch |-> stops,
               state |-> audioContextState])
        /\ nextStartTime' = playCursor(startAt, call.dur)
        /\ sourceNodes' = sourceNodes \cup {id}
        /\ IF call.audiobook
           THEN /\ isAudiobookPlaying' = TRUE
                /\ audiobookScrollStartTime' = currentTime
                /\ lastSceneChangeTimestamp' = currentTime
                /\ currentAudiobookSceneIndex' = 0
                /\ currentHighlightedLineIndex' = 0
                /\ currentHighlightedWordIndex' = 0
           ELSE UNCHANGED <<isAudiobookPlaying, audiobookScrollStartTime,
                            lastSceneChangeTimestamp, currentAudiobookSceneIndex,
                            currentHighlightedLineIndex, currentHighlightedWordIndex>>

\* playAudioBuffer(buffer, isAudiobook) is called.
PlayAudioBuffer(dur, audiobook) ==
    /\ ~Draining
    /\ submitted < MaxChunks
    /\ submitted' = submitted + 1
    /\ LET call == [chunk |-> submitted + 1, dur |-> dur, audiobook |-> audiobook,
                    subEpoch |-> stops]
       IN  IF audioContextState # "running"
           THEN /\ resumeWaiters' = Append(resumeWaiters, call)
                /\ UNCHANGED <<started, nextStartTime, sourceNodes, isAudiobookPlaying,
                               audiobookScrollStartTime, lastSceneChangeTimestamp,
                               currentAudiobookSceneIndex, currentHighlightedLineIndex,
                               currentHighlightedWordIndex>>
           ELSE /\ Schedule(call, FALSE)
                /\ UNCHANGED resumeWaiters
    /\ UNCHANGED <<currentTime, audioContextState, endedPending, stops, cursorAtStop,
                   finishedSignals, emptyings,
                   stoppedSources, disconnectedSources>>
    /\ UNCHANGED nonSched

\* The device starts running: the promises of resume() are resolved in the
\* order of the calls.
ResumeResolved ==
    /\ audioContextState = "suspended"
    /\ audioContextState' = "running"
    /\ UNCHANGED <<currentTime, nextStartTime, sourceNodes, resumeWaiters, endedPending,
                   isAudiobookPlaying, audiobookScrollStartTime, lastSceneChangeTimestamp,
                   currentHighlightedLineIndex, currentHighlightedWordIndex,
                   currentAudiobookSceneIndex, started, submitted, stops, cursorAtStop,
                   finishedSignals, emptyings,
                   stoppedSources, disconnectedSources>>
    /\ UNCHANGED nonSched

\* The call suspended first continues after its await.
PlayAfterResume ==
    /\ Draining
    /\ Schedule(Head(resumeWaiters), TRUE)
    /\ resumeWaiters' = Tail(resumeWaiters)
    /\ UNCHANGED <<currentTime, audioContextState, endedPending, submitted, stops,
                   cursorAtStop, finishedSignals, emptyings,
                   stoppedSources, disconnectedSources>>
    /\ UNCHANGED nonSched

\* Mutant: the rejection of resume() is swallowed and the call goes on.
ResumeRejected_swallowed ==
    /\ audioContextState = "suspended"
    /\ resumeWaiters # <<>>
    /\ Schedule(Head(resumeWaiters), TRUE)
    /\ resumeWaiters' = Tail(resumeWaiters)
    /\ UNCHANGED <<currentTime, audioContextState, endedPending, submitted, stops,
                   cursorAtStop, finishedSignals, emptyings,
                   stoppedSources, disconnectedSources>>
    /\ UNCHANGED nonSched

\* The device cannot be started: the promises of resume() are rejected, and
\* each suspended call ends at its await with that error.
ResumeRejected ==
    /\ audioContextState = "suspended"
    /\ resumeWaiters # <<>>
    /\ resumeWaiters' = <<>>
    /\ UNCHANGED <<currentTime, audioContextState, nextStartTime, sourceNodes, endedPending,
                   isAudiobookPlaying, audiobookScrollStartTime, lastSceneChangeTimestamp,
                   currentHighlightedLineIndex, currentHighlightedWordIndex,
                   currentAudiobookSceneIndex, started, submitted, stops, cursorAtStop,
                   finishedSignals, emptyings,
                   stoppedSources, disconnectedSources>>
    /\ UNCHANGED nonSched

\* source.stop() for each source of the set
stopEach(stopped, sources) == stopped \cup sources

\* Mutant: the sources are dropped from the set but stay on the output bus.
disconnectEach_none(disconnected, sources) == disconnected

\* source.disconnect() for each source of the set
disconnectEach(disconnected, sources) == disconnected \cup sources

\* 1 when a set of live sources that holds an audiobook source becomes empty,
\* else 0.
emptied(before, after) ==
    IF after = {} /\ \E s \in before : started[s].audiobook THEN 1 ELSE 0

\* Mutant: stopAllAudio leaves the cursor where it was.
StopAllAudio_keepCursor ==
    /\ ~Draining
    /\ stops < MaxStops
    /\ stops' = stops + 1
    /\ cursorAtStop' = nextStartTime
    /\ endedPending' = endedPending \cup sourceNodes
    /\ sourceNodes' = {}
    /\ emptyings' = emptyings + emptied(sourceNodes, {})
    /\ stoppedSources' = stopEach(stoppedSources, sourceNodes)
    /\ disconnectedSources' = disconnectEach(disconnectedSources, sourceNodes)
    /\ UNCHANGED finishedSignals
    /\ UNCHANGED <<currentTime, audioContextState, nextStartTime, resumeWaiters,
                   isAudiobookPlaying, audiobookScrollStartTime, lastSceneChangeTimestamp,
                   currentHighlightedLineIndex, currentHighlightedWordIndex,
                   currentAudiobookSceneIndex, started, submitted>>
    /\ UNCHANGED nonSched

\* stopAllAudio()
StopAllAudio ==
    /\ ~Draining
    /\ stops < MaxStops
    /\ stops' = stops + 1
    /\ cursorAtStop' = nextStartTime
    /\ endedPending' = endedPending \cup sourceNodes
    /\ sourceNodes' = {}
    /\ emptyings' = emptyings + emptied(sourceNodes, {})
    /\ stoppedSources' = stopEach(stoppedSources, sourceNodes)
    /\ disconnectedSources' = disconnectEach(disconnectedSources, sourceNodes)
    /\ UNCHANGED finishedSignals
    /\ nextStartTime' = 0
    /\ UNCHANGED <<currentTime, audioContextState, resumeWaiters, isAudiobookPlaying,
                   audiobookScrollStartTime, lastSceneChangeTimestamp,
                   currentHighlightedLineIndex, currentHighlightedWordIndex,
                   currentAudiobookSceneIndex, started, submitted>>
    /\ UNCHANGED nonSched

\* The 'ended' listener of source s: the source played to its end, or it was
\* stopped and its event is delivered.
SourceEnded(s) ==
    /\ ~Draining
    /\ \/ s \in sourceNodes /\ started[s].start + started[s].dur <= currentTime
       \/ s \in endedPending
    /\ sourceNodes' = sourceNodes \ {s}
    /\ endedPending' = endedPending \ {s}
    /\ emptyings' = emptyings + emptied(sourceNodes, sourceNodes \ {s})
    /\ IF sourceNodes \ {s} = {} /\ started[s].audiobook
       THEN /\ isAudiobookPlaying' = FALSE
            /\ finishedSignals' = finishedSignals + 1
            /\ currentHighlightedLineIndex' = -1
            /\ currentHighlightedWordIndex' = -1
            /\ audiobookScrollStartTime' = 0
            /\ lastSceneChangeTimestamp' = 0
       ELSE UNCHANGED <<isAudiobookPlaying, currentHighlightedLineIndex,
                        currentHighlightedWordIndex, audiobookScrollStartTime,
                        lastSceneChangeTimestamp, finishedSignals>>
    /\ UNCHANGED <<currentTime, audioContextState, nextStartTime, resumeWaiters,
                   currentAudiobookSceneIndex, started, submitted, stops, cursorAtStop,
                   stoppedSources, disconnectedSources>>
    /\ UNCHANGED nonSched

\* The audio clock advances while the device runs.
ClockTick ==
    /\ audioContextState = "running"
    /\ currentTime < MaxClock
    /\ currentTime' = currentTime + 1
    /\ UNCHANGED <<audioContextState, nextStartTime, sourceNodes, resumeWaiters,
                   endedPending, isAudiobookPlaying, audiobookScrollStartTime,
                   lastSceneChangeTimestamp, currentHighlightedLineIndex,
                   currentHighlightedWordIndex, currentAudiobookSceneIndex, started,
                   submitted, stops, cursorAtStop, finishedSignals, emptyings,
                   stoppedSources, disconnectedSources>>
    /\ UNCHANGED nonSched

SchedNext ==
    \/ \E dur \in 1..MaxDur, audiobook \in BOOLEAN : PlayAudioBuffer(dur, audiobook)
    \/ ResumeResolved
    \/ PlayAfterResume
    \/ StopAllAudio
    \/ \E s \in 1..MaxChunks : s <= Len(started) /\ SourceEnded(s)
    \/ ClockTick

\* The scheduler with a device that may fail to start, and no stop.
ResumeNext ==
    \/ \E dur \in 1..MaxDur, audiobook \in BOOLEAN : PlayAudioBuffer(dur, audiobook)
    \/ ResumeResolved
    \/ ResumeRejected
    \/ PlayAfterResume
    \/ \E s \in 1..MaxChunks : s <= Len(started) /\ SourceEnded(s)
    \/ ClockTick

(***************************************************************************)
(* generateTextToSpeech: bounded retry with exponential backoff.           *)
(***************************************************************************)
\* maxRetries: number = 2; no caller passes another value.
DefaultMaxRetries == 2
BackoffBaseMs == 1000

ErrorKinds == {"network", "quota", "safety"}
NoError == [attempt |-> 0, kind |-> "none"]

RECURSIVE Pow2(_)
Pow2(n) == IF n = 0 THEN 1 ELSE 2 * Pow2(n - 1)

\* globalThis.Math.pow(2, attempts) * 1000
backoffDelay(n) == Pow2(n) * BackoffBaseMs

\* Mutant: the retry test lets one more retry through.
shouldRetry_offByOne(n, maxRetries) == n <= maxRetries

\* if (attempts < maxRetries)
shouldRetry(n, maxRetries) == n < maxRetries

TtsInit ==
    /\ ttsPc = "idle"
    /\ attempts = 0
    /\ audioBuffers = <<>>
    /\ ttsStreamed = 0
    /\ ttsWaits = <<>>
    /\ ttsResult = <<>>
    /\ ttsError = NoError
    /\ ttsOutcomes = <<>>

\* The call: const audioBuffers = []; let attempts = 0; first loop test.
GenerateTextToSpeech ==
    /\ ttsPc = "idle"
    /\ ttsPc' = IF 0 <= DefaultMaxRetries THEN "attempt" ELSE "threw"
    /\ attempts' = 0
    /\ audioBuffers' = <<>>
    /\ ttsStreamed' = 0
    /\ UNCHANGED <<ttsWaits, ttsResult, ttsError, ttsOutcomes>>
    /\ UNCHANGED nonTts

\* for await (const chunk of response): one fragment is decoded and pushed.
StreamFragment ==
    /\ ttsPc = "attempt"
    /\ ttsStreamed < MaxFragments
    /\ ttsStreamed' = ttsStreamed + 1
    /\ audioBuffers' = Append(audioBuffers, <<attempts + 1, ttsStreamed + 1>>)
    /\ UNCHANGED <<ttsPc, attempts, ttsWaits, ttsResult, ttsError, ttsOutcomes>>
    /\ UNCHANGED nonTts

\* The stream ends: return audioBuffers.
AttemptReturns ==
    /\ ttsPc = "attempt"
    /\ ttsPc' = "returned"
    /\ ttsResult' = audioBuffers
    /\ ttsOutcomes' = Append(ttsOutcomes, "ok")
    /\ UNCHANGED <<attempts, audioBuffers, ttsStreamed, ttsWaits, ttsError>>
    /\ UNCHANGED nonTts

\* The request, the stream or the decoding throws: the catch block.
AttemptThrows(kind) ==
    /\ ttsPc = "attempt"
    /\ ttsOutcomes' = Append(ttsOutcomes, kind)
    /\ IF shouldRetry(attempts, DefaultMaxRetries)
       THEN /\ ttsWaits' = Append(ttsWaits, backoffDelay(attempts))
            /\ ttsPc' = "waiting"
            /\ UNCHANGED ttsError
       ELSE /\ ttsError' = [attempt |-> attempts + 1, kind |-> kind]
            /\ ttsPc' = "threw"
            /\ UNCHANGED ttsWaits
    /\ UNCHANGED <<attempts, audioBuffers, ttsStreamed, ttsResult>>
    /\ UNCHANGED nonTts

\* The timer fires: attempts++, then the loop test.
BackoffElapsed ==
    /\ ttsPc = "waiting"
    /\ attempts' = attempts + 1
    /\ ttsStreamed' = 0
    /\ IF attempts + 1 <= DefaultMaxRetries
       THEN ttsPc' = "attempt" /\ UNCHANGED ttsError
       ELSE ttsPc' = "threw" /\ ttsError' = [attempt |-> 0, kind |-> "generic"]
    /\ UNCHANGED <<audioBuffers, ttsWaits, ttsResult, ttsOutcomes>>
    /\ UNCHANGED nonTts

TtsNext ==
    \/ GenerateTextToSpeech
    \/ StreamFragment
    \/ AttemptReturns
    \/ \E kind \in ErrorKinds : AttemptThrows(kind)
    \/ BackoffElapsed

(***************************************************************************)
(* Capture pipeline: startRecordingVideo and the recorder's handlers.      *)
(***************************************************************************)
\* VIDEO_CODECS: value and mimeType.
VideoCodecs == {"webm", "mp4_h264"}
mimeTypeOf(codec) == IF codec = "webm" THEN "video/webm" ELSE "video/mp4"

\* VIDEO_RESOLUTIONS and VIDEO_BITRATES: the values.
VideoResolutions == {"1080p", "720p", "480p"}
VideoBitrates == {"500k", "1000k", "2000k", "5000k", "10000k"}

\* A value that is in none of the tables.
UnknownValue == "unknown"

\* Sizes of the blobs a dataavailable event can carry.
ChunkSizes == {0, 10, 20, 30}

NoRecorder == [state |-> "none", codec |-> "none"]
NoBlob == [parts |-> <<>>, size |-> 0, type |-> "none"]
NoStop == [delivered |-> <<>>, chunks |-> <<>>, codec |-> "none",
           selected |-> "none", error |-> "none"]

RECURSIVE SumSeq(_)
SumSeq(q) == IF q = <<>> THEN 0 ELSE Head(q) + SumSeq(Tail(q))

\* new Blob(parts, { type })
Blob(parts, type) == [parts |-> parts, size |-> SumSeq(parts), type |-> type]

(***************************************************************************)
(* The render loop: requestAnimationFrame, the visualizer effect that      *)
(* starts and cancels it, and the closure its frames run in.               *)
(***************************************************************************)
NoFrame == 0                \* animationFrameIdRef.current === null
NoHue == 0 - 1

EffectNames == {"isDynamicBackgroundEnabled", "isParticleEffectEnabled",
                "isSineWaveEffectEnabled", "isKaraokeEffectEnabled", "isTintEffectEnabled"}

\* The useState defaults of the five toggles.
DefaultEffects ==
    [isDynamicBackgroundEnabled |-> TRUE, isParticleEffectEnabled |-> FALSE,
     isSineWaveEffectEnabled |-> TRUE, isKaraokeEffectEnabled |-> TRUE,
     isTintEffectEnabled |-> TRUE]

RenderInit ==
    /\ effects = DefaultEffects
    /\ animationFrameId = NoFrame
    /\ framePending = FALSE
    /\ loopEffects = DefaultEffects
    /\ particles = <<>>
    /\ sineColorHue = NoHue
    /\ toggleClicks = 0

TheLoop == [id |-> animationFrameId, pending |-> framePending, effects |-> loopEffects]

SetLoop(loop) ==
    /\ animationFrameId' = loop.id
    /\ framePending' = loop.pending
    /\ loopEffects' = loop.effects

\* isAnyVisualActive && !isLoading; no background music plays in this model.
shouldVisualize == (isLiveSessionActive \/ isPlayingVideo \/ isAudiobookPlaying) /\ ~isLoading

\* The dependencies of the visualizer effect, those of drawMainVisualizer
\* included.
VisualizerDeps ==
    <<isLiveSessionActive, isPlayingVideo, isAudiobookPlaying, isLoading,
      audiobookSceneImageCount, currentAudiobookSceneIndex, selectedVideoResolution,
      audiobookLinesWithTiming, currentHighlightedLineIndex, currentHighlightedWordIndex,
      effects>>

\* drawMainVisualizer() as the tail of a render whose toggles are committed:
\* animate() starts only when no frame id is held, and then runs in the
\* closure of this render. animate() draws its first frame at once; here
\* that frame is the first pending one, drawn with the same closure.
drawMainVisualizer(loop, committed) ==
    IF loop.id = NoFrame
    THEN [id |-> 1, pending |-> TRUE, effects |-> committed]
    ELSE loop

\* The body of the visualizer effect: drawMainVisualizer() when visualize
\* (shouldVisualize, an analyser and a running audio context), otherwise
\* cancelAnimationFrame, the id set to null and the canvas blanked.
visualizerEffect(loop, visualize, committed) ==
    IF visualize THEN drawMainVisualizer(loop, committed)
    ELSE IF loop.id # NoFrame
         THEN [id |-> NoFrame, pending |-> FALSE, effects |-> loop.effects]
         ELSE loop

\* The visualizer effect after the commit of a handler: it runs when one of
\* its dependencies changed; while the effects of a commit are still due
\* (effectsDue) it runs with them, in EffectCleanup.
VisualizerEffect ==
    IF effectsDue' \/ VisualizerDeps' = VisualizerDeps
    THEN UNCHANGED loopVars
    ELSE SetLoop(visualizerEffect(TheLoop,
                                  shouldVisualize' /\ audioContextState' = "running",
                                  effects'))

RecInit ==
    /\ isPlayingVideo = FALSE
    /\ isRecordingVideo = FALSE
    /\ isLoading = FALSE
    /\ error = "none"
    /\ selectedVideoCodec = "webm"
    /\ mediaRecorder = NoRecorder
    /\ recordedChunks = <<>>
    /\ delivered = <<>>
    /\ effectsDue = FALSE
    /\ savesPending = 0
    /\ hasSavePicker \in BOOLEAN
    /\ recordedBlob = NoBlob
    /\ recordings = 0
    /\ lastStop = NoStop

RecIdle == RecInit /\ hasSavePicker = FALSE

\* The record button: disabled={isLoading || (!isPlayingVideo &&
\* !isAudiobookPlaying && !isRecordingVideo)}
RecordButtonEnabled ==
    ~isLoading /\ (isPlayingVideo \/ isAudiobookPlaying \/ isRecordingVideo)

\* Mutant: a new blob replaces the list.
ondataavailable_replace(chunks, size) == IF size > 0 THEN <<size>> ELSE chunks

\* mediaRecorder.ondataavailable
ondataavailable(chunks, size) == IF size > 0 THEN Append(chunks, size) ELSE chunks

\* Mutant: onstop never takes the empty branch.
captureIsEmpty_never(chunks) == FALSE

\* if (recordedChunksRef.current.length === 0)
captureIsEmpty(chunks) == Len(chunks) = 0

\* { type: selectedCodec.mimeType }: selectedCodec is the constant of the
\* startRecordingVideo call that built the recorder.
blobType(codecAtStart, codecNow) == mimeTypeOf(codecAtStart)

\* No effect is due and no recorder task is running: the next handler can run.
Quiet == ~effectsDue /\ mediaRecorder.state # "firing"

\* Mutant: only the resolution is looked up.
selectionIsValid_resolutionOnly(resolution, codec, bitrate) ==
    resolution \in VideoResolutions

\* !(!selectedRes || !selectedCodec || !selectedBitrateObj), each found in
\* its table by value
selectionIsValid(resolution, codec, bitrate) ==
    /\ resolution \in VideoResolutions
    /\ codec \in VideoCodecs
    /\ bitrate \in VideoBitrates

\* startRecordingVideo(). ready: the canvas and the audio destination exist;
\* built: the tracks were obtained and the recorder was constructed and started.
startRecordingVideo(ready, built) ==
    /\ IF ~ready \/ (~isPlayingVideo /\ ~isAudiobookPlaying)
       THEN /\ error' = IF ~ready THEN "notReady" ELSE "nothingPlaying"
            /\ UNCHANGED <<recordedChunks, delivered, recordedBlob, lastStop, isLoading,
                           mediaRecorder, isRecordingVideo, effectsDue, recordings,
                           isAudiobookPlaying, isAudiobookPlaybackPaused,
                           isAudiobookGenerating>>
       ELSE /\ recordedChunks' = <<>>
            /\ delivered' = <<>>
            /\ recordedBlob' = NoBlob
            /\ lastStop' = NoStop
            /\ IF built /\ selectionIsValid(selectedVideoResolution, selectedVideoCodec,
                                            selectedVideoBitrate)
               THEN /\ error' = "none"
                    /\ isLoading' = TRUE
                    /\ mediaRecorder' = [state |-> "recording", codec |-> selectedVideoCodec]
                    /\ isRecordingVideo' = TRUE
                    /\ effectsDue' = TRUE
                    /\ recordings' = recordings + 1
                    /\ UNCHANGED <<isAudiobookPlaying, isAudiobookPlaybackPaused,
                                   isAudiobookGenerating>>
               ELSE \* catch: handleApiError, setIsLoading(false)
                    /\ error' = "startFailed"
                    /\ isLoading' = FALSE
                    /\ isAudiobookPlaying' = FALSE
                    /\ isAudiobookPlaybackPaused' = FALSE
                    /\ isAudiobookGenerating' = FALSE
                    /\ isRecordingVideo' = FALSE
                    /\ UNCHANGED <<mediaRecorder, effectsDue, recordings>>
    /\ UNCHANGED <<isPlayingVideo, selectedVideoCodec, savesPending, hasSavePicker>>
    /\ UNCHANGED <<selectedVideoResolution, selectedVideoBitrate>>
    /\ UNCHANGED nonApiError
    /\ VisualizerEffect

\* startRecordingVideo, by a click on the record button while not recording.
StartRecordingVideo(ready, built) ==
    /\ Quiet
    /\ RecordButtonEnabled /\ ~isRecordingVideo
    /\ recordings < MaxRecordings
    /\ startRecordingVideo(ready, built)
    /\ UNCHANGED startCalls

\* The effect with dependencies [stopAllAudioSources, stopRecordingVideo,
\* videoUrl, audiobookSceneImageUrls]: stopRecordingVideo is a new function
\* whenever isRecordingVideo changes, so the cleanup of the previous render
\* runs after the commit: stopAllAudioSources(), then the previous
\* stopRecordingVideo(), which stops a recorder in the recording state.
EffectCleanup ==
    /\ effectsDue
    /\ effectsDue' = FALSE
    /\ isPlayingVideo' = FALSE
    /\ isRecordingVideo' = FALSE
    /\ mediaRecorder' = IF mediaRecorder.state = "recording"
                        THEN [mediaRecorder EXCEPT !.state = "stopping"]
                        ELSE mediaRecorder
    /\ UNCHANGED <<isLoading, error, selectedVideoCodec, recordedChunks, delivered,
                   savesPending, hasSavePicker, recordedBlob, recordings, lastStop,
                   isAudiobookPlaying>>
    /\ UNCHANGED nonRec
    \* the cleanup cancels the requested frame and keeps the id; the
    \* visualizer effect then runs for the commit that made the effects due,
    \* and again for the state this cleanup sets
    /\ SetLoop(visualizerEffect(
                  visualizerEffect([TheLoop EXCEPT !.pending = FALSE],
                                   shouldVisualize /\ audioContextState = "running",
                                   effects),
                  shouldVisualize' /\ audioContextState' = "running", effects'))

\* The task that ends a recording fires, in this order and with no other
\* handler in between: an error event when the recorder failed, the
\* dataavailable events for the data gathered, the stop event.

\* mediaRecorder.onerror: handleApiError, setIsRecordingVideo(false),
\* setIsLoading(false).
RecorderError ==
    /\ ~effectsDue
    /\ mediaRecorder.state = "stopping"
    /\ mediaRecorder' = [mediaRecorder EXCEPT !.state = "firing"]
    /\ error' = "recorderError"
    /\ isLoading' = FALSE
    /\ isAudiobookPlaying' = FALSE
    /\ isRecordingVideo' = FALSE
    /\ isAudiobookPlaybackPaused' = FALSE
    /\ isAudiobookGenerating' = FALSE
    /\ UNCHANGED <<isPlayingVideo, selectedVideoCodec, recordedChunks, delivered,
                   effectsDue, savesPending, hasSavePicker, recordedBlob, recordings,
                   lastStop>>
    /\ UNCHANGED <<nonApiError, configVars>>
    /\ VisualizerEffect

\* mediaRecorder.ondataavailable, for a blob of the given size.
RecorderDataAvailable(size) ==
    /\ ~effectsDue
    /\ mediaRecorder.state \in {"stopping", "firing"}
    /\ Len(delivered) < MaxDeliveries
    /\ mediaRecorder' = [mediaRecorder EXCEPT !.state = "firing"]
    /\ recordedChunks' = ondataavailable(recordedChunks, size)
    /\ delivered' = Append(delivered, size)
    /\ UNCHANGED <<isPlayingVideo, isRecordingVideo, isLoading, error, selectedVideoCodec,
                   effectsDue, savesPending, hasSavePicker, recordedBlob, recordings,
                   lastStop, isAudiobookPlaying>>
    /\ UNCHANGED nonRec
    /\ VisualizerEffect

\* mediaRecorder.onstop up to its first await; the recorder has delivered
\* its data, be it an empty blob.
RecorderStop ==
    /\ ~effectsDue
    /\ mediaRecorder.state = "firing"
    /\ delivered # <<>>
    /\ mediaRecorder' = [mediaRecorder EXCEPT !.state = "inactive"]
    /\ isRecordingVideo' = FALSE
    /\ isLoading' = FALSE
    /\ IF captureIsEmpty(recordedChunks)
       THEN /\ error' = "emptyCapture"
            /\ recordedBlob' = NoBlob
            /\ UNCHANGED <<savesPending, recordedChunks>>
       ELSE /\ recordedBlob' = Blob(recordedChunks,
                                    blobType(mediaRecorder.codec, selectedVideoCodec))
            /\ IF hasSavePicker
               THEN savesPending' = savesPending + 1 /\ UNCHANGED recordedChunks
               ELSE savesPending' = savesPending /\ recordedChunks' = <<>>
            /\ UNCHANGED error
    /\ lastStop' = [delivered |-> delivered, chunks |-> recordedChunks,
                    codec |-> mediaRecorder.codec, selected |-> selectedVideoCodec,
                    error |-> error']
    /\ UNCHANGED <<isPlayingVideo, selectedVideoCodec, delivered, effectsDue,
                   hasSavePicker, recordings, isAudiobookPlaying>>
    /\ UNCHANGED nonRec
    /\ VisualizerEffect

\* mediaRecorder.onstop after its awaits: the file is written, or the picker
\* or the write fails (handleApiError); then recordedChunksRef.current = [].
SaveFinished(saved) ==
    /\ Quiet
    /\ savesPending > 0
    /\ savesPending' = savesPending - 1
    /\ recordedChunks' = <<>>
    /\ IF saved
       THEN UNCHANGED <<error, isLoading, isAudiobookPlaying, isRecordingVideo>>
       ELSE /\ error' = "saveFailed"
            /\ isLoading' = FALSE
            /\ isAudiobookPlaying' = FALSE
            /\ isRecordingVideo' = FALSE
    /\ UNCHANGED <<isPlayingVideo, selectedVideoCodec, mediaRecorder, delivered,
                   effectsDue, hasSavePicker, recordedBlob, recordings, lastStop>>
    /\ UNCHANGED nonRec
    /\ VisualizerEffect

\* The codec select: disabled={isLoading || isRecordingVideo}
SelectVideoCodec(codec) ==
    /\ Quiet
    /\ ~isLoading /\ ~isRecordingVideo
    /\ codec # selectedVideoCodec
    /\ selectedVideoCodec' = codec
    /\ UNCHANGED <<isPlayingVideo, isRecordingVideo, isLoading, error, mediaRecorder,
                   recordedChunks, delivered, effectsDue, savesPending, hasSavePicker, recordedBlob,
                   recordings, lastStop, isAudiobookPlaying>>
    /\ UNCHANGED nonRec
    /\ VisualizerEffect

\* handlePlayPauseVideo, by its button: disabled={!videoUrl || isLoading ||
\* isRecordingVideo || isAudiobookPlaying}
PlayPauseVideo ==
    /\ Quiet
    /\ ~isLoading /\ ~isRecordingVideo /\ ~isAudiobookPlaying
    /\ isPlayingVideo' = ~isPlayingVideo
    /\ isAudiobookPlaying' = FALSE
    /\ UNCHANGED <<isRecordingVideo, isLoading, error, selectedVideoCodec, mediaRecorder,
                   recordedChunks, delivered, effectsDue, savesPending, hasSavePicker, recordedBlob,
                   recordings, lastStop>>
    /\ UNCHANGED nonRec
    /\ VisualizerEffect

\* handleVideoEnded
VideoEnded ==
    /\ Quiet
    /\ isPlayingVideo
    /\ isPlayingVideo' = FALSE
    /\ UNCHANGED <<isRecordingVideo, isLoading, error, selectedVideoCodec, mediaRecorder,
                   recordedChunks, delivered, effectsDue, savesPending, hasSavePicker, recordedBlob,
                   recordings, lastStop, isAudiobookPlaying>>
    /\ UNCHANGED nonRec
    /\ VisualizerEffect

\* handleReadAloud as the capture pipeline sees it: stopAllAudioSources()
\* pauses the video; a playing audiobook is paused, otherwise one starts.
ReadAloud ==
    /\ Quiet
    /\ ~isLoading
    /\ isPlayingVideo' = FALSE
    /\ isAudiobookPlaying' = ~isAudiobookPlaying
    /\ UNCHANGED <<isRecordingVideo, isLoading, error, selectedVideoCodec, mediaRecorder,
                   recordedChunks, delivered, effectsDue, savesPending, hasSavePicker, recordedBlob,
                   recordings, lastStop>>
    /\ UNCHANGED nonRec
    /\ VisualizerEffect

\* The 'ended' listener of the last audiobook source.
AudiobookEnded ==
    /\ Quiet
    /\ isAudiobookPlaying
    /\ isAudiobookPlaying' = FALSE
    /\ UNCHANGED recVars
    /\ UNCHANGED nonRec
    /\ VisualizerEffect

\* The export settings as the component is mounted: VIDEO_RESOLUTIONS[0] and
\* VIDEO_BITRATES[2].
ConfigInit ==
    /\ selectedVideoResolution = "1080p"
    /\ selectedVideoBitrate = "2000k"
    /\ startCalls = 0

\* The state in which the contract of startRecordingVideo is examined: the
\* three selections hold any value of their table or a value of none.
StartInit ==
    /\ selectedVideoResolution \in VideoResolutions \cup {UnknownValue}
    /\ selectedVideoCodec \in VideoCodecs \cup {UnknownValue}
    /\ selectedVideoBitrate \in VideoBitrates \cup {UnknownValue}
    /\ startCalls = 0
    /\ isPlayingVideo = FALSE
    /\ isRecordingVideo = FALSE
    /\ isLoading = FALSE
    /\ error = "none"
    /\ mediaRecorder = NoRecorder
    /\ recordedChunks = <<>>
    /\ delivered = <<>>
    /\ effectsDue = FALSE
    /\ savesPending = 0
    /\ hasSavePicker = FALSE
    /\ recordedBlob = NoBlob
    /\ recordings = 0
    /\ lastStop = NoStop

\* startRecordingVideo() called while no recording is on, whatever plays.
CallStartRecordingVideo(ready, built) ==
    /\ Quiet
    /\ ~isRecordingVideo
    /\ startCalls < MaxStartCalls
    /\ startCalls' = startCalls + 1
    /\ startRecordingVideo(ready, built)

StartNext ==
    \/ PlayPauseVideo
    \/ ReadAloud
    \/ \E ready, built \in BOOLEAN : CallStartRecordingVideo(ready, built)

RecNext ==
    \/ \E ready, built \in BOOLEAN : StartRecordingVideo(ready, built)
    \/ EffectCleanup
    \/ RecorderError
    \/ \E size \in ChunkSizes : RecorderDataAvailable(size)
    \/ RecorderStop
    \/ \E saved \in BOOLEAN : SaveFinished(saved)
    \/ \E codec \in VideoCodecs : SelectVideoCodec(codec)
    \/ PlayPauseVideo
    \/ VideoEnded
    \/ ReadAloud
    \/ AudiobookEnded

(***************************************************************************)
(* Caption timing: segmentTextForKaraoke and the caption lookup.           *)
(***************************************************************************)
\* ---- numbers ----
FracBits == MantissaBits + 4
OneSecond == Pow2(FracBits)

\* The distance between neighbouring numbers at magnitude q.
RECURSIVE Spacing(_)
Spacing(q) == IF q < Pow2(MantissaBits) THEN 1 ELSE 2 * Spacing(q \div 2)

\* The number nearest to num/den (num >= 0, den > 0), ties to even.
RoundRat(num, den) ==
    LET sp == Spacing(num \div den)
        lo == ((num \div den) \div sp) * sp
        rest == 2 * (num - lo * den)
        half == sp * den
    IN  IF rest < half THEN lo
        ELSE IF rest > half THEN lo + sp
        ELSE IF (lo \div sp) % 2 = 0 THEN lo ELSE lo + sp

FAdd(a, b) == RoundRat(a + b, 1)
FSub(a, b) == IF a >= b THEN RoundRat(a - b, 1) ELSE 0 - RoundRat(b - a, 1)
FMul(a, b) == RoundRat(a * b, 1)
FDiv(a, b) == RoundRat(a, b)
Hundredths(n) == RoundRat(n * OneSecond, 100)

SetMin(S) == CHOOSE x \in S : \A y \in S : x <= y

\* ---- characters ----
Alphabet == {"a", " ", ".", "\n"}
IsWhitespace(c) == c \in {" ", "\n"}       \* \s
IsPunctuation(c) == c = "."                \* [.,!?;:]
Letters == {"a", "H", "e", "l", "o", "w", "r", "d", "B", "y", "n"}
IsWordChar(c) == c \in Letters             \* \w

\* ---- text.split('\n').filter(line => line.trim().length > 0) ----
RECURSIVE SplitLines(_, _)
SplitLines(text, line) ==
    IF text = <<>> THEN <<line>>
    ELSE IF Head(text) = "\n" THEN <<line>> \o SplitLines(Tail(text), <<>>)
    ELSE SplitLines(Tail(text), Append(line, Head(text)))

RECURSIVE TrimStart(_)
TrimStart(str) ==
    IF str # <<>> /\ IsWhitespace(Head(str)) THEN TrimStart(Tail(str)) ELSE str

RECURSIVE TrimEnd(_)
TrimEnd(str) ==
    IF str # <<>> /\ IsWhitespace(str[Len(str)])
    THEN TrimEnd(SubSeq(str, 1, Len(str) - 1)) ELSE str

Trim(str) == TrimEnd(TrimStart(str))

NonBlank(line) == Len(Trim(line)) > 0

LinesOf(text) == SelectSeq(SplitLines(text, <<>>), NonBlank)

\* text.split(/\s+/).filter(w => w.length > 0).length
totalWords(text) ==
    Cardinality({k \in 1..Len(text) :
        ~IsWhitespace(text[k]) /\ (k = 1 \/ IsWhitespace(text[k - 1]))})

\* ---- line.split(/(\s+|\b[.,!?;:]+\b)/g).filter(w => w.length > 0) ----
\* The run of punctuation around position k is a separator when a word
\* character stands right before it and right after it (\b on both sides).
PunctRunStart(line, k) ==
    SetMin({i \in 1..k : \A m \in i..k : IsPunctuation(line[m])})

PunctRunEnd(line, k) ==
    0 - SetMin({0 - j : j \in {j \in k..Len(line) : \A m \in k..j : IsPunctuation(line[m])}})

Between(line, k) ==
    LET i == PunctRunStart(line, k)
        j == PunctRunEnd(line, k)
    IN  /\ i > 1 /\ IsWordChar(line[i - 1])
        /\ j < Len(line) /\ IsWordChar(line[j + 1])

\* What the split makes of the character at k: part of a whitespace
\* separator, of a punctuation separator, or of the text between separators.
PartAt(line, k) ==
    IF IsWhitespace(line[k]) THEN "space"
    ELSE IF IsPunctuation(line[k]) /\ Between(line, k) THEN "punctuation"
    ELSE "text"

PartEnd(line, k) ==
    0 - SetMin({0 - j : j \in {j \in k..Len(line) :
                                 \A m \in k..j : PartAt(line, m) = PartAt(line, k)}})

RECURSIVE WordsFrom(_, _)
WordsFrom(line, k) ==
    IF k > Len(line) THEN <<>>
    ELSE <<SubSeq(line, k, PartEnd(line, k))>> \o WordsFrom(line, PartEnd(line, k) + 1)

wordsInLine(line) == WordsFrom(line, 1)

\* ---- the duration of one word ----
\* /^[.,!?;:]+$/.test(word.trim())
isPunctuation(word) ==
    Trim(word) # <<>> /\ \A k \in 1..Len(Trim(word)) : IsPunctuation(Trim(word)[k])

\* /\s+/.test(word)
hasWhitespace(word) == \E k \in 1..Len(word) : IsWhitespace(word[k])

\* Math.max(0.1, totalAudiobookDuration / Math.max(totalWords, 1))
baseAverageWordDuration(text, duration) ==
    Max(Hundredths(10), FDiv(duration, Max(totalWords(text), 1)))

estimatedWordDuration(word, base) ==
    IF isPunctuation(word) THEN Hundredths(25)
    ELSE IF hasWhitespace(word) THEN Hundredths(8)
    ELSE Max(Hundredths(8), FAdd(FMul(Len(word), Hundredths(9)), FDiv(base, 2)))

\* ---- the word segments of a line ----
RECURSIVE WordSegments(_, _, _)
WordSegments(words, wordTimeOffset, base) ==
    IF words = <<>> THEN <<>>
    ELSE LET d == estimatedWordDuration(Head(words), base)
         IN  <<[word |-> Trim(Head(words)),
                startTime |-> wordTimeOffset,
                endTime |-> FAdd(wordTimeOffset, d)]>>
             \o WordSegments(Tail(words), FAdd(wordTimeOffset, d), base)

RECURSIVE LineDuration(_, _, _)
LineDuration(words, lineDuration, base) ==
    IF words = <<>> THEN lineDuration
    ELSE LineDuration(Tail(words),
                      FAdd(lineDuration, estimatedWordDuration(Head(words), base)), base)

\* Mutant: the offset of the next line is never moved on.
advanceOffset_stuck(overallTimeOffset, lineDuration) == overallTimeOffset

\* overallTimeOffset += lineDuration
advanceOffset(overallTimeOffset, lineDuration) == FAdd(overallTimeOffset, lineDuration)

RECURSIVE LineSegments(_, _, _)
LineSegments(lines, overallTimeOffset, base) ==
    IF lines = <<>> THEN <<>>
    ELSE LET line == Head(lines)
             lineDuration == LineDuration(wordsInLine(line), 0, base)
         IN  <<[text |-> Trim(line),
                words |-> WordSegments(wordsInLine(line), 0, base),
                duration |-> lineDuration,
                relativeStartTime |-> overallTimeOffset,
                relativeEndTime |-> FAdd(overallTimeOffset, lineDuration)]>>
             \o LineSegments(Tail(lines), advanceOffset(overallTimeOffset, lineDuration), base)

\* Mutant: the offset is a variable outside the function, never reset.
initialTimeOffset_kept == timeOffsetLeft

\* let overallTimeOffset = 0;
initialTimeOffset == 0

segmentTextForKaraoke(text, duration) ==
    IF LinesOf(text) = <<>> THEN <<>>
    ELSE LineSegments(LinesOf(text), initialTimeOffset,
                      baseAverageWordDuration(text, duration))

\* ---- the caption lookup of the render loop; indices count from 0 ----
lookupLine(lines, time) ==
    LET found == {i \in 1..Len(lines) :
                    time >= lines[i].relativeStartTime /\ time < lines[i].relativeEndTime}
    IN  IF found = {} THEN -1 ELSE SetMin(found) - 1

\* Mutant: a word is found only after its start.
lookupWord_strictStart(lines, time) ==
    IF lookupLine(lines, time) = -1 THEN -1
    ELSE LET line == lines[lookupLine(lines, time) + 1]
             timeInLine == FSub(time, line.relativeStartTime)
             found == {j \in 1..Len(line.words) :
                         timeInLine > line.words[j].startTime
                         /\ timeInLine < line.words[j].endTime}
         IN  IF found = {} THEN -1 ELSE SetMin(found) - 1

lookupWord(lines, time) ==
    IF lookupLine(lines, time) = -1 THEN -1
    ELSE LET line == lines[lookupLine(lines, time) + 1]
             timeInLine == FSub(time, line.relativeStartTime)
             found == {j \in 1..Len(line.words) :
                         timeInLine >= line.words[j].startTime
                         /\ timeInLine < line.words[j].endTime}
         IN  IF found = {} THEN -1 ELSE SetMin(found) - 1

\* ---- the caption window of the render loop ----
visibleLines == 3

\* Mutant: the window starts at the current line.
startIndex_atCurrent(current) == current

\* Math.max(0, currentLineIndex - Math.floor(visibleLines / 2))
startIndex(current) == Max(0, current - (visibleLines \div 2))

\* Math.min(audiobookLinesWithTiming.length - 1, startIndex + visibleLines - 1)
endIndex(current, n) == Min(n - 1, startIndex(current) + visibleLines - 1)

\* while (length < visibleLines && linesToDisplayIndices[0] > 0) unshift(first - 1)
RECURSIVE unshiftWhile(_)
unshiftWhile(w) ==
    IF Len(w) > 0 /\ Len(w) < visibleLines /\ w[1] > 0
    THEN unshiftWhile(<<w[1] - 1>> \o w)
    ELSE w

\* while (length < visibleLines && last < audiobookLinesWithTiming.length - 1)
\* push(last + 1)
RECURSIVE pushWhile(_, _)
pushWhile(w, n) ==
    IF Len(w) > 0 /\ Len(w) < visibleLines /\ w[Len(w)] < n - 1
    THEN pushWhile(Append(w, w[Len(w)] + 1), n)
    ELSE w

\* linesToDisplayIndices for the current line found among n lines, -1 for
\* none: the indices startIndex..endIndex, then the two adjusting loops.
captionWindow(current, n) ==
    IF current = -1 THEN <<>>
    ELSE pushWhile(unshiftWhile([k \in 1..(endIndex(current, n) - startIndex(current) + 1)
                                    |-> startIndex(current) + k - 1]), n)

\* ---- the inputs ----
Texts == UNION {[1..n -> Alphabet] : n \in 0..MaxLen}
Durations == {n * OneSecond : n \in 1..MaxSeconds}

\* "Hello world. Bye now." read aloud in 4.0 seconds.
HelloWorld == <<"H", "e", "l", "l", "o", " ", "w", "o", "r", "l", "d", ".", " ",
               "B", "y", "e", " ", "n", "o", "w", ".">>
HelloWorldDuration == 4 * OneSecond

\* The times worth a lookup: the boundaries of the lines and of the words,
\* the numbers next to them on either side, and a time before the start.
Boundaries(lines) ==
    {lines[i].relativeStartTime : i \in 1..Len(lines)}
    \cup {lines[i].relativeEndTime : i \in 1..Len(lines)}
    \cup UNION {{FAdd(lines[i].relativeStartTime, lines[i].words[j].endTime) :
                    j \in 1..Len(lines[i].words)} : i \in 1..Len(lines)}

Before(b) == IF b <= 0 THEN b - 1 ELSE b - Spacing(b - 1)
After(b) == IF b < 0 THEN b + 1 ELSE b + Spacing(b)

LookupTimes(lines) ==
    {-1} \cup Boundaries(lines)
    \cup {Before(b) : b \in Boundaries(lines)} \cup {After(b) : b \in Boundaries(lines)}

\* A text of n one-word lines.
RECURSIVE LinesText(_)
LinesText(n) == IF n <= 1 THEN <<"a">> ELSE LinesText(n - 1) \o <<"\n", "a">>

WindowTexts == {LinesText(n) : n \in 1..MaxLines}

\* The value of captionTime before the first lookup.
NoTime == 0 - 2

SegInit ==
    /\ \/ textInput \in Texts /\ totalAudiobookDuration \in Durations
       \/ textInput = HelloWorld /\ totalAudiobookDuration = HelloWorldDuration
    /\ audiobookLinesWithTiming = <<>>
    /\ segmented = FALSE
    /\ captionTime = NoTime
    /\ currentLineIndex = -1
    /\ currentWordIndex = -1
    /\ linesToDisplayIndices = <<>>

SegIdle == SegInit /\ textInput = <<>> /\ totalAudiobookDuration = OneSecond

\* The texts of the caption window: one to MaxLines lines, not yet segmented.
WindowInit ==
    /\ textInput \in WindowTexts /\ totalAudiobookDuration \in Durations
    /\ audiobookLinesWithTiming = <<>>
    /\ segmented = FALSE
    /\ captionTime = NoTime
    /\ currentLineIndex = -1
    /\ currentWordIndex = -1
    /\ linesToDisplayIndices = <<>>

\* handleReadAloud: setAudiobookLinesWithTiming(segmentTextForKaraoke(textInput,
\* totalAudiobookDuration))
SegmentText ==
    /\ ~segmented
    /\ segmented' = TRUE
    /\ audiobookLinesWithTiming' = segmentTextForKaraoke(textInput, totalAudiobookDuration)
    /\ UNCHANGED <<textInput, totalAudiobookDuration, captionTime, currentLineIndex,
                   currentWordIndex, linesToDisplayIndices>>
    /\ UNCHANGED nonSeg

\* One frame of the render loop with the caption overlay on, at any of the
\* lookup times; the clock never runs backwards.
CaptionLookup ==
    /\ segmented
    /\ Len(audiobookLinesWithTiming) > 0
    /\ \E time \in LookupTimes(audiobookLinesWithTiming) :
          /\ time > captionTime
          /\ captionTime' = time
          /\ currentLineIndex' = lookupLine(audiobookLinesWithTiming, time)
          /\ currentWordIndex' = lookupWord(audiobookLinesWithTiming, time)
          /\ linesToDisplayIndices' =
                 captionWindow(lookupLine(audiobookLinesWithTiming, time),
                               Len(audiobookLinesWithTiming))
    /\ UNCHANGED <<textInput, totalAudiobookDuration, audiobookLinesWithTiming, segmented>>
    /\ UNCHANGED nonSeg

\* The inputs of the repeated calls: an empty text, one word, two words,
\* two lines with a punctuation mark.
CallTexts == {<<>>, <<"a">>, <<"a", " ", "a">>, <<"a", ".", "\n", "a">>}

CallsInit ==
    /\ timeOffsetLeft = 0
    /\ segmentCalls = <<>>

\* segmentTextForKaraoke(text, duration) is called once more; its local
\* overallTimeOffset ends at the end time of the last line.
CallSegmentText(text, duration) ==
    /\ Len(segmentCalls) < MaxSegmentCalls
    /\ LET result == segmentTextForKaraoke(text, duration)
       IN  /\ segmentCalls' = Append(segmentCalls,
                   [text |-> text, duration |-> duration, result |-> result])
           /\ timeOffsetLeft' = IF result = <<>> THEN timeOffsetLeft
                                 ELSE result[Len(result)].relativeEndTime
    /\ UNCHANGED <<schedVars, ttsVars, recVars, segVars, sceneVars, readVars, configVars,
                   mp3Vars, liveVars, previewVars, drawVars, loopVars>>

CallsNext == \E text \in CallTexts, duration \in Durations : CallSegmentText(text, duration)

SegNext ==
    \/ SegmentText
    \/ CaptionLookup

(***************************************************************************)
(* Scene crossfade: the scene cycling of the render loop.  The clock is in *)
(* ticks, TicksPerSecond of them to the second.                            *)
(***************************************************************************)
FADE_DURATION_SECONDS == 1
FadeTicks == FADE_DURATION_SECONDS * TicksPerSecond

NoFade == [active |-> FALSE, startTime |-> 0, oldIndex |-> 0, newIndex |-> 0]
NoImage == 0 - 1
NoDrawn == [oldImageOpacity |-> 0, newImageOpacity |-> 0, at |-> 0 - 1, startTime |-> 0]

SceneInit ==
    /\ audiobookSceneImageCount \in 0..MaxImages
    /\ audiobookFadeState = NoFade
    /\ audiobookPcmDuration = 0
    /\ sceneFrames = 0
    /\ loopSceneIndex = 0
    /\ previousLoadedAudiobookImage = NoImage
    /\ fadeDrawn = NoDrawn

SceneIdle == SceneInit /\ audiobookSceneImageCount = 0

\* Mutant: a single image is cycled too.
sceneIsDue_anyImage(fadeActive, imageCount, elapsedSinceLastChange, total) ==
    /\ ~fadeActive /\ imageCount > 0
    /\ elapsedSinceLastChange * imageCount >= total

\* !fadeState?.active && urls.length > 1 && elapsedSinceLastChange >=
\* totalAudiobookDuration / urls.length
sceneIsDue(fadeActive, imageCount, elapsedSinceLastChange, total) ==
    /\ ~fadeActive /\ imageCount > 1
    /\ elapsedSinceLastChange * imageCount >= total

\* const oldIndex = currentAudiobookSceneIndex, read by animate from the
\* closure of the drawMainVisualizer call that started the loop: a later
\* call finds animationFrameIdRef set and starts no new loop.
oldIndex == loopSceneIndex

\* The fade state after the scene cycling part of a frame.
fadeAfterCycling ==
    IF /\ audiobookPcmDuration > 0 /\ audiobookSceneImageCount > 0
       /\ sceneIsDue(audiobookFadeState.active, audiobookSceneImageCount,
                     currentTime - lastSceneChangeTimestamp, audiobookPcmDuration)
    THEN [active |-> TRUE, startTime |-> currentTime,
          oldIndex |-> oldIndex,
          newIndex |-> (oldIndex + 1) % audiobookSceneImageCount]
    ELSE audiobookFadeState

\* Math.min(1, (currentTime - fadeState.startTime) / fadeState.duration),
\* in units of 1 / FadeTicks.
fadeProgress(now, startTime) == Min(FadeTicks, now - startTime)

\* Mutant: a fade that has reached its end is drawn again in the next frame.
fadeIsOver_never(progress) == FALSE

\* if (progress >= 1)
fadeIsOver(progress) == progress >= FadeTicks

\* One frame of the render loop in its audiobook branch: the scene cycling,
\* then the drawing, which ends a fade whose progress has reached 1.
SceneFrame ==
    /\ isAudiobookPlaying /\ audiobookSceneImageCount > 0
    /\ IF fadeAfterCycling # audiobookFadeState
       THEN /\ currentAudiobookSceneIndex' = fadeAfterCycling.newIndex
            /\ lastSceneChangeTimestamp' = currentTime
       ELSE UNCHANGED <<currentAudiobookSceneIndex, lastSceneChangeTimestamp>>
    /\ LET fadeState == fadeAfterCycling
           progress == fadeProgress(currentTime, fadeState.startTime)
           held == IF fadeState # audiobookFadeState THEN currentAudiobookSceneIndex
                   ELSE previousLoadedAudiobookImage
       IN  IF fadeState.active
           THEN /\ fadeDrawn' = [oldImageOpacity |-> FadeTicks - progress,
                                 newImageOpacity |-> progress,
                                 at |-> currentTime, startTime |-> fadeState.startTime]
                /\ audiobookFadeState' = IF fadeIsOver(progress) THEN NoFade ELSE fadeState
                /\ previousLoadedAudiobookImage' =
                       IF fadeIsOver(progress) THEN NoImage ELSE held
           ELSE /\ fadeDrawn' = NoDrawn
                /\ audiobookFadeState' = fadeState
                /\ previousLoadedAudiobookImage' = held
    /\ sceneFrames' = Min(sceneFrames + 1, MaxFrames)
    /\ UNCHANGED <<currentTime, isAudiobookPlaying, audiobookSceneImageCount,
                   audiobookPcmDuration, loopSceneIndex>>
    /\ UNCHANGED nonScene

\* An audiobook session starts or resumes (handleReadAloud, playAudioBuffer
\* with isAudiobook): the scene state is reset.
SceneSessionStarts(total) ==
    /\ ~isAudiobookPlaying
    /\ isAudiobookPlaying' = TRUE
    /\ audiobookPcmDuration' = total
    /\ lastSceneChangeTimestamp' = currentTime
    /\ currentAudiobookSceneIndex' = 0
    /\ audiobookFadeState' = NoFade
    /\ sceneFrames' = 0
    /\ loopSceneIndex' = 0
    /\ previousLoadedAudiobookImage' = NoImage
    /\ UNCHANGED fadeDrawn
    /\ UNCHANGED <<currentTime, audiobookSceneImageCount>>
    /\ UNCHANGED nonScene

\* The session ends: the 'ended' listener of its last source (the scene clock
\* is reset), or a pause by handleReadAloud (it is not).
SceneSessionEnds(ended) ==
    /\ isAudiobookPlaying
    /\ isAudiobookPlaying' = FALSE
    /\ lastSceneChangeTimestamp' = IF ended THEN 0 ELSE lastSceneChangeTimestamp
    /\ UNCHANGED <<currentTime, currentAudiobookSceneIndex, audiobookSceneImageCount,
                   audiobookFadeState, audiobookPcmDuration, sceneFrames, loopSceneIndex,
                   previousLoadedAudiobookImage, fadeDrawn>>
    /\ UNCHANGED nonScene

\* handleAudiobookSceneImagesChange, handleClearAudiobookScenes,
\* handleGenerateImagesFromText: a new list of n images.
SetSceneImages(n) ==
    /\ audiobookSceneImageCount' = n
    /\ currentAudiobookSceneIndex' = 0
    /\ audiobookFadeState' = NoFade
    /\ previousLoadedAudiobookImage' = NoImage
    /\ UNCHANGED <<currentTime, isAudiobookPlaying, lastSceneChangeTimestamp,
                   audiobookPcmDuration, sceneFrames, loopSceneIndex, fadeDrawn>>
    /\ UNCHANGED nonScene

\* The audio clock advances.
SceneClockTick ==
    /\ currentTime < MaxSceneClock
    /\ currentTime' = currentTime + 1
    /\ UNCHANGED <<isAudiobookPlaying, lastSceneChangeTimestamp,
                   currentAudiobookSceneIndex>>
    /\ UNCHANGED sceneVars
    /\ UNCHANGED nonScene

SceneNext ==
    \/ SceneFrame
    \/ \E total \in 1..MaxPcmDuration : SceneSessionStarts(total)
    \/ \E ended \in BOOLEAN : SceneSessionEnds(ended)
    \/ \E n \in 0..MaxImages : SetSceneImages(n)
    \/ SceneClockTick

(***************************************************************************)
(* Audiobook session: handleReadAloud (generate, pause, resume) and        *)
(* handleApiError, acting on the playback scheduler.                       *)
(***************************************************************************)
NoPause == [at |-> 0 - 1, queue |-> <<>>, halted |-> {}]
NoResume == [first |-> 0, queue |-> <<>>, epoch |-> 0 - 1]

\* A text of two words, for the sessions of handleReadAloud.
TwoWords == <<"a", " ", "a">>

ReadInit ==
    /\ audiobookPcmBuffers = <<>>
    /\ isAudiobookPlaybackPaused = FALSE
    /\ isAudiobookGenerating = FALSE
    /\ readAlouds = 0
    /\ lastPause = NoPause
    /\ lastResume = NoResume
    /\ errorsReported = 0

\* The lists of chunk durations generateTextToSpeech can return.
Queues == UNION {[1..n -> 1..MaxDur] : n \in 0..MaxQueue}

\* The read-aloud button: disabled={isLoading || isAudiobookGenerating || ...}
ReadAloudButtonEnabled == ~isLoading /\ ~isAudiobookGenerating

\* The playAudioBuffer(buffer, true) calls of buffers.forEach, made after
\* the handler's calls of stopAllAudio.
callsOf(buffers, stopsBefore) ==
    [k \in 1..Len(buffers) |->
        [chunk |-> submitted + k, dur |-> buffers[k], audiobook |-> TRUE,
         subEpoch |-> stopsBefore]]

\* The calls of a forEach on a running device, none of which has to wait:
\* each is scheduled in full before the next is made.
RECURSIVE scheduleEach(_, _, _, _)
scheduleEach(calls, log, cursor, epoch) ==
    IF calls = <<>> THEN [started |-> log, nextStartTime |-> cursor]
    ELSE LET call == Head(calls)
             startAt == playStart(cursor, currentTime)
         IN  scheduleEach(Tail(calls),
                 Append(log, [chunk |-> call.chunk, start |-> startAt, dur |-> call.dur,
                              at |-> currentTime, audiobook |-> call.audiobook,
                              resumed |-> FALSE, subEpoch |-> call.subEpoch,
                              epoch |-> epoch, state |-> audioContextState]),
                 playCursor(startAt, call.dur), epoch)

\* stopAllAudio(), called calls times in a row by one handler (0 when the
\* handler does not call it), followed by
\* buffers.forEach(buffer => playAudioBuffer(buffer, true)).
StopThenPlay(calls, buffers) ==
    LET halted == IF calls = 0 THEN {} ELSE sourceNodes
        live == sourceNodes \ halted
        cursor == IF calls = 0 THEN nextStartTime ELSE 0
        after == scheduleEach(callsOf(buffers, stops + calls), started, cursor,
                              stops + calls)
    IN  /\ stops' = stops + calls
        /\ cursorAtStop' = IF calls = 0 THEN cursorAtStop
                           ELSE IF calls = 1 THEN nextStartTime ELSE 0
        /\ endedPending' = endedPending \cup halted
        /\ emptyings' = emptyings + emptied(halted, {})
        /\ stoppedSources' = stopEach(stoppedSources, halted)
        /\ disconnectedSources' = disconnectEach(disconnectedSources, halted)
        /\ submitted' = submitted + Len(buffers)
        /\ IF audioContextState # "running"
           THEN /\ resumeWaiters' = resumeWaiters \o callsOf(buffers, stops + calls)
                /\ nextStartTime' = cursor
                /\ sourceNodes' = live
                /\ UNCHANGED started
           ELSE /\ started' = after.started
                /\ nextStartTime' = after.nextStartTime
                /\ sourceNodes' = live \cup (Len(started) + 1)..Len(after.started)
                /\ UNCHANGED resumeWaiters
        /\ UNCHANGED <<currentTime, audioContextState, finishedSignals>>

\* handleReadAloud while the audiobook plays: stopAllAudioSources(),
\* stopAllAudio(), the playing flag cleared and the paused flag set.
HandleReadAloudPause ==
    /\ ~Draining
    /\ ReadAloudButtonEnabled
    /\ readAlouds < MaxReadAlouds
    /\ isAudiobookPlaying
    /\ readAlouds' = readAlouds + 1
    /\ StopThenPlay(2, <<>>)
    /\ isPlayingVideo' = FALSE
    /\ isAudiobookPlaying' = FALSE
    /\ isAudiobookPlaybackPaused' = TRUE
    /\ lastPause' = [at |-> stops + 2, queue |-> audiobookPcmBuffers, halted |-> sourceNodes]
    /\ UNCHANGED <<audiobookScrollStartTime, lastSceneChangeTimestamp,
                   currentHighlightedLineIndex, currentHighlightedWordIndex,
                   currentAudiobookSceneIndex>>
    /\ UNCHANGED <<audiobookPcmBuffers, isAudiobookGenerating, lastResume, errorsReported>>
    /\ UNCHANGED <<isRecordingVideo, isLoading, error, selectedVideoCodec, mediaRecorder,
                   recordedChunks, delivered, effectsDue, savesPending, hasSavePicker,
                   recordedBlob, recordings, lastStop>>
    /\ UNCHANGED <<ttsVars, segVars, sceneVars, configVars, mp3Vars, liveVars, callVars, previewVars, drawVars, loopVars>>

\* handleReadAloud while the audiobook is paused and the queue is not empty:
\* stopAllAudioSources(), stopAllAudio(), every chunk of the queue submitted
\* again.
HandleReadAloudResume ==
    /\ ~Draining
    /\ ReadAloudButtonEnabled
    /\ readAlouds < MaxReadAlouds
    /\ ~isAudiobookPlaying
    /\ isAudiobookPlaybackPaused /\ Len(audiobookPcmBuffers) > 0
    /\ readAlouds' = readAlouds + 1
    /\ StopThenPlay(2, audiobookPcmBuffers)
    /\ error' = "none"
    /\ isPlayingVideo' = FALSE
    /\ isAudiobookPlaying' = TRUE
    /\ isAudiobookPlaybackPaused' = FALSE
    /\ audiobookScrollStartTime' = currentTime
    /\ lastSceneChangeTimestamp' = currentTime
    /\ currentAudiobookSceneIndex' = 0
    /\ currentHighlightedLineIndex' = 0
    /\ currentHighlightedWordIndex' = 0
    /\ audiobookFadeState' = NoFade
    /\ lastResume' = [first |-> submitted + 1, queue |-> audiobookPcmBuffers,
                      epoch |-> stops + 2]
    /\ UNCHANGED <<audiobookPcmBuffers, isAudiobookGenerating, lastPause, errorsReported>>
    /\ UNCHANGED <<isRecordingVideo, isLoading, selectedVideoCodec, mediaRecorder,
                   recordedChunks, delivered, effectsDue, savesPending, hasSavePicker,
                   recordedBlob, recordings, lastStop>>
    /\ loopSceneIndex' = 0
    /\ previousLoadedAudiobookImage' = NoImage
    /\ UNCHANGED <<audiobookSceneImageCount, audiobookPcmDuration, sceneFrames, fadeDrawn>>
    /\ UNCHANGED <<ttsVars, segVars, configVars, mp3Vars, liveVars, callVars, previewVars, drawVars, loopVars>>

\* handleReadAloud otherwise, up to its await of generateTextToSpeech:
\* stopAllAudioSources(), stopAllAudio(), the queue emptied.
HandleReadAloudGenerate ==
    /\ ~Draining
    /\ ReadAloudButtonEnabled
    /\ readAlouds < MaxReadAlouds
    /\ ~isAudiobookPlaying
    /\ ~(isAudiobookPlaybackPaused /\ Len(audiobookPcmBuffers) > 0)
    /\ readAlouds' = readAlouds + 1
    /\ StopThenPlay(2, <<>>)
    /\ error' = "none"
    /\ isLoading' = TRUE
    /\ isAudiobookGenerating' = TRUE
    /\ isPlayingVideo' = FALSE
    /\ audiobookPcmBuffers' = <<>>
    /\ audiobookPcmDuration' = 0
    /\ currentAudiobookSceneIndex' = 0
    /\ currentHighlightedLineIndex' = 0
    /\ currentHighlightedWordIndex' = 0
    /\ audiobookFadeState' = NoFade
    /\ UNCHANGED <<isAudiobookPlaying, audiobookScrollStartTime, lastSceneChangeTimestamp>>
    /\ UNCHANGED <<isAudiobookPlaybackPaused, lastPause, lastResume, errorsReported>>
    /\ UNCHANGED <<isRecordingVideo, selectedVideoCodec, mediaRecorder,
                   recordedChunks, delivered, effectsDue, savesPending, hasSavePicker,
                   recordedBlob, recordings, lastStop>>
    /\ previousLoadedAudiobookImage' = NoImage
    /\ UNCHANGED <<audiobookSceneImageCount, sceneFrames, loopSceneIndex, fadeDrawn>>
    /\ UNCHANGED <<ttsVars, segVars, configVars, mp3Vars, liveVars, callVars, previewVars, drawVars, loopVars>>

\* handleReadAloud after generateTextToSpeech returned its buffers, with the
\* finally block.
HandleReadAloudGenerated(buffers) ==
    /\ ~Draining
    /\ isAudiobookGenerating
    /\ isLoading' = FALSE
    /\ isAudiobookGenerating' = FALSE
    /\ IF Len(buffers) > 0
       THEN /\ audiobookPcmBuffers' = buffers
            /\ audiobookPcmDuration' = SumSeq(buffers)
            /\ totalAudiobookDuration' = RoundRat(SumSeq(buffers) * OneSecond, 1)
            /\ audiobookLinesWithTiming' =
                   segmentTextForKaraoke(textInput, RoundRat(SumSeq(buffers) * OneSecond, 1))
            /\ segmented' = TRUE
            /\ StopThenPlay(0, buffers)
            /\ isAudiobookPlaying' = TRUE
            /\ isAudiobookPlaybackPaused' = FALSE
            /\ audiobookScrollStartTime' = currentTime
            /\ lastSceneChangeTimestamp' = currentTime
            /\ currentAudiobookSceneIndex' = 0
            /\ currentHighlightedLineIndex' = 0
            /\ currentHighlightedWordIndex' = 0
       ELSE /\ isAudiobookPlaying' = FALSE
            /\ UNCHANGED <<schedRest, audiobookPcmBuffers, audiobookPcmDuration,
                           totalAudiobookDuration, audiobookLinesWithTiming, segmented,
                           isAudiobookPlaybackPaused>>
    /\ UNCHANGED <<textInput, captionTime, currentLineIndex, currentWordIndex,
                   linesToDisplayIndices>>
    /\ UNCHANGED <<readAlouds, lastPause, lastResume, errorsReported>>
    /\ UNCHANGED <<isPlayingVideo, isRecordingVideo, error, selectedVideoCodec, mediaRecorder,
                   recordedChunks, delivered, effectsDue, savesPending, hasSavePicker,
                   recordedBlob, recordings, lastStop>>
    /\ loopSceneIndex' = IF Len(buffers) > 0 THEN 0 ELSE loopSceneIndex
    /\ UNCHANGED <<audiobookSceneImageCount, audiobookFadeState, sceneFrames,
                   previousLoadedAudiobookImage, fadeDrawn>>
    /\ UNCHANGED <<ttsVars, configVars, mp3Vars, liveVars, callVars, previewVars, drawVars, loopVars>>

\* handleApiError(message, err): the message is set and the flags cleared.
\* Its callers are the catch blocks and error callbacks of the handlers;
\* caller names the one that reports.
HandleApiError(caller) ==
    /\ ~Draining
    /\ errorsReported < MaxErrors
    /\ caller = "handleReadAloud" => isAudiobookGenerating
    /\ errorsReported' = errorsReported + 1
    /\ error' = caller
    /\ isLoading' = FALSE
    /\ isAudiobookGenerating' = FALSE
    /\ isAudiobookPlaying' = FALSE
    /\ isAudiobookPlaybackPaused' = FALSE
    /\ isRecordingVideo' = FALSE
    /\ UNCHANGED <<schedRest, audiobookPcmBuffers, readAlouds, lastPause, lastResume>>
    /\ UNCHANGED <<isPlayingVideo, selectedVideoCodec, mediaRecorder,
                   recordedChunks, delivered, effectsDue, savesPending, hasSavePicker,
                   recordedBlob, recordings, lastStop>>
    /\ UNCHANGED <<ttsVars, segVars, sceneVars, configVars, mp3Vars, liveVars, callVars, previewVars, drawVars, loopVars>>

\* The callers of handleApiError the session can meet: the catch block of
\* handleReadAloud, the onError callback of the YouTube player and the failed
\* save of a recorded video.
ApiErrorCallers == {"handleReadAloud", "youTubePlayer", "saveRecording"}

\* The 'ended' listener of one of the sources started so far.
AnySourceEnded == \E s \in 1..Len(started) : SourceEnded(s)

ReadNext ==
    \/ HandleReadAloudGenerate
    \/ \E buffers \in Queues : HandleReadAloudGenerated(buffers)
    \/ HandleReadAloudPause
    \/ HandleReadAloudResume
    \/ \E caller \in ApiErrorCallers : HandleApiError(caller)
    \/ ResumeResolved
    \/ PlayAfterResume
    \/ AnySourceEnded
    \/ ClockTick

(***************************************************************************)
(* Voice preview: handlePreviewVoice.                                      *)
(***************************************************************************)
\* The chunk number of a source that playAudioBuffer did not start.
PreviewChunk == 0

PreviewInit == previewPc = "idle"

\* A click on a voice, up to the awaits of the handler: the flags are set
\* and stopAllAudio() is called.  The voice chips are never disabled.
HandlePreviewVoice ==
    /\ ~Draining
    /\ previewPc = "idle"
    /\ stops < MaxStops
    /\ previewPc' = "generating"
    /\ error' = "none"
    /\ isLoading' = TRUE
    /\ stops' = stops + 1
    /\ cursorAtStop' = nextStartTime
    /\ endedPending' = endedPending \cup sourceNodes
    /\ sourceNodes' = {}
    /\ emptyings' = emptyings + emptied(sourceNodes, {})
    /\ stoppedSources' = stopEach(stoppedSources, sourceNodes)
    /\ disconnectedSources' = disconnectEach(disconnectedSources, sourceNodes)
    /\ nextStartTime' = 0
    /\ UNCHANGED <<currentTime, audioContextState, resumeWaiters, isAudiobookPlaying,
                   audiobookScrollStartTime, lastSceneChangeTimestamp,
                   currentHighlightedLineIndex, currentHighlightedWordIndex,
                   currentAudiobookSceneIndex, started, submitted, finishedSignals>>
    /\ UNCHANGED <<isPlayingVideo, isRecordingVideo, selectedVideoCodec, mediaRecorder,
                   recordedChunks, delivered, effectsDue, savesPending, hasSavePicker,
                   recordedBlob, recordings, lastStop>>
    /\ UNCHANGED <<ttsVars, segVars, sceneVars, readVars, configVars, mp3Vars, liveVars,
                   callVars, drawVars>>
    /\ VisualizerEffect

\* The device runs and generateTextToSpeech has returned buffers: the first
\* one is played by a source of its own, started with start(0), and the
\* loading flag is cleared.
PreviewGenerated(buffers) ==
    /\ ~Draining
    /\ previewPc = "generating"
    /\ audioContextState = "running"
    /\ previewPc' = "idle"
    /\ isLoading' = FALSE
    /\ started' = IF Len(buffers) > 0
                  THEN Append(started,
                           [chunk |-> PreviewChunk, start |-> playStart(0, currentTime),
                            dur |-> buffers[1], at |-> currentTime, audiobook |-> FALSE,
                            resumed |-> FALSE, subEpoch |-> stops, epoch |-> stops,
                            state |-> audioContextState])
                  ELSE started
    /\ UNCHANGED <<currentTime, audioContextState, nextStartTime, sourceNodes,
                   resumeWaiters, endedPending, isAudiobookPlaying,
                   audiobookScrollStartTime, lastSceneChangeTimestamp,
                   currentHighlightedLineIndex, currentHighlightedWordIndex,
                   currentAudiobookSceneIndex, submitted, stops, cursorAtStop,
                   finishedSignals, emptyings, stoppedSources, disconnectedSources>>
    /\ UNCHANGED <<isPlayingVideo, isRecordingVideo, error, selectedVideoCodec,
                   mediaRecorder, recordedChunks, delivered, effectsDue, savesPending,
                   hasSavePicker, recordedBlob, recordings, lastStop>>
    /\ UNCHANGED <<ttsVars, segVars, sceneVars, readVars, configVars, mp3Vars, liveVars,
                   callVars, drawVars>>
    /\ VisualizerEffect

\* resume() or generateTextToSpeech has thrown: the catch block calls
\* handleApiError and the finally block clears the loading flag.
PreviewFailed ==
    /\ ~Draining
    /\ previewPc = "generating"
    /\ errorsReported < MaxErrors
    /\ previewPc' = "idle"
    /\ errorsReported' = errorsReported + 1
    /\ error' = "handlePreviewVoice"
    /\ isLoading' = FALSE
    /\ isAudiobookGenerating' = FALSE
    /\ isAudiobookPlaying' = FALSE
    /\ isAudiobookPlaybackPaused' = FALSE
    /\ isRecordingVideo' = FALSE
    /\ UNCHANGED <<schedRest, audiobookPcmBuffers, readAlouds, lastPause, lastResume>>
    /\ UNCHANGED <<isPlayingVideo, selectedVideoCodec, mediaRecorder,
                   recordedChunks, delivered, effectsDue, savesPending, hasSavePicker,
                   recordedBlob, recordings, lastStop>>
    /\ UNCHANGED <<ttsVars, segVars, sceneVars, configVars, mp3Vars, liveVars, callVars,
                   drawVars>>
    /\ VisualizerEffect

PreviewNext ==
    \/ HandlePreviewVoice
    \/ \E buffers \in Queues : PreviewGenerated(buffers)
    \/ PreviewFailed
    \/ \E dur \in 1..MaxDur, audiobook \in BOOLEAN : PlayAudioBuffer(dur, audiobook)
    \/ ResumeResolved
    \/ PlayAfterResume
    \/ StopAllAudio
    \/ AnySourceEnded
    \/ ClockTick

(***************************************************************************)
(* MP3 export: encodePCMToMP3.                                             *)
(***************************************************************************)
MAX_CHUNK_SIZE == 1152
Int16Scale == 32767         \* 0x7FFF

\* Lengths of the chunks handed to the encoder: around one frame.
ChunkLengths == {0, 1, MAX_CHUNK_SIZE - 1, MAX_CHUNK_SIZE, MAX_CHUNK_SIZE + 1}

\* The lists of chunks (each given by its length) encodePCMToMP3 is called with.
Mp3Inputs == UNION {[1..n -> ChunkLengths] : n \in 0..MaxMp3Chunks}

\* Sizes lame.encodeBuffer and lame.flush can return.
EncoderSizes == {0, 4}

\* buffer.getChannelData(0) of the k-th chunk, in halves: the samples run
\* through -1.5, -1, ..., 1.5, from a phase that depends on the chunk.
channelData(k, length) == [i \in 1..length |-> ((3 * k + i) % 7) - 3]

\* combinedBuffer after combinedBuffer.set(data, offset) for the chunks from
\* the k-th on.
RECURSIVE setFrom(_, _, _, _)
setFrom(input, k, offset, combined) ==
    IF k > Len(input) THEN combined
    ELSE LET data == channelData(k, input[k])
         IN  setFrom(input, k + 1, offset + input[k],
                     [i \in 1..Len(combined) |->
                         IF i > offset /\ i <= offset + input[k]
                         THEN data[i - offset] ELSE combined[i]])

\* new Float32Array(totalLength), filled by the loop over the chunks
combinedBuffer(input) == setFrom(input, 1, 0, [i \in 1..SumSeq(input) |-> 0])

\* Math.max(-1, Math.min(1, x)) * 0x7FFF stored in an Int16Array: the
\* product is truncated towards zero. x is in halves.
toInt16(x) ==
    LET clamped == Max(0 - 2, Min(2, x))
        product == clamped * Int16Scale
    IN  IF product >= 0 THEN product \div 2 ELSE 0 - ((0 - product) \div 2)

pcm16(input) ==
    LET combined == combinedBuffer(input)
    IN  [i \in 1..Len(combined) |-> toInt16(combined[i])]

\* Mutant: the frame stops one sample short.
subarray_short(pcm, begin, end) == SubSeq(pcm, begin + 1, Min(end, Len(pcm)) - 1)

\* pcm16.subarray(begin, end), indices from 0, end clamped to the length
subarray(pcm, begin, end) == SubSeq(pcm, begin + 1, Min(end, Len(pcm)))

\* if (encodedByteCount === 0)
encodedNothing(byteCount, frames) == byteCount = 0

NoMp3Result == [kind |-> "pending", size |-> 0]

Mp3Idle ==
    /\ mp3Pc = "idle"
    /\ mp3Input = <<>>
    /\ lameLoaded = TRUE
    /\ frameStart = 0
    /\ mp3data = <<>>
    /\ encodedByteCount = 0
    /\ mp3Result = NoMp3Result
    /\ fedFrames = <<>>
    /\ encoderOutputs = <<>>
    /\ flushes = 0

Mp3Init ==
    /\ mp3Pc = "idle"
    /\ mp3Input \in Mp3Inputs
    /\ lameLoaded \in BOOLEAN
    /\ frameStart = 0
    /\ mp3data = <<>>
    /\ encodedByteCount = 0
    /\ mp3Result = NoMp3Result
    /\ fedFrames = <<>>
    /\ encoderOutputs = <<>>
    /\ flushes = 0

\* encodePCMToMP3(audioBuffers) up to the encoding loop: without the library
\* the promise is rejected at once.
EncodeStart ==
    /\ mp3Pc = "idle"
    /\ IF lameLoaded
       THEN mp3Pc' = "encoding" /\ UNCHANGED mp3Result
       ELSE mp3Pc' = "settled" /\ mp3Result' = [kind |-> "rejected", size |-> 0]
    /\ UNCHANGED <<mp3Input, lameLoaded, frameStart, mp3data, encodedByteCount,
                   fedFrames, encoderOutputs, flushes>>
    /\ UNCHANGED <<schedVars, ttsVars, recVars, segVars, sceneVars, readVars, configVars,
                   liveVars, callVars, previewVars, drawVars, loopVars>>

\* One round of the loop: lame.encodeBuffer on the next frame returns size
\* bytes.
EncodeFrame(size) ==
    /\ mp3Pc = "encoding"
    /\ frameStart < SumSeq(mp3Input)
    /\ fedFrames' = Append(fedFrames,
                           subarray(pcm16(mp3Input), frameStart, frameStart + MAX_CHUNK_SIZE))
    /\ encoderOutputs' = Append(encoderOutputs, size)
    /\ mp3data' = IF size > 0 THEN Append(mp3data, size) ELSE mp3data
    /\ encodedByteCount' = encodedByteCount + size
    /\ frameStart' = frameStart + MAX_CHUNK_SIZE
    /\ UNCHANGED <<mp3Pc, mp3Input, lameLoaded, mp3Result, flushes>>
    /\ UNCHANGED <<schedVars, ttsVars, recVars, segVars, sceneVars, readVars, configVars,
                   liveVars, callVars, previewVars, drawVars, loopVars>>

\* After the loop: lame.flush() returns size bytes, and the promise is
\* settled.
FlushAndSettle(size) ==
    /\ mp3Pc = "encoding"
    /\ frameStart >= SumSeq(mp3Input)
    /\ flushes' = flushes + 1
    /\ encoderOutputs' = Append(encoderOutputs, size)
    /\ mp3data' = IF size > 0 THEN Append(mp3data, size) ELSE mp3data
    /\ encodedByteCount' = encodedByteCount + size
    /\ mp3Pc' = "settled"
    /\ mp3Result' = IF encodedNothing(encodedByteCount + size, fedFrames)
                    THEN [kind |-> "rejected", size |-> 0]
                    ELSE [kind |-> "resolved",
                          size |-> SumSeq(IF size > 0 THEN Append(mp3data, size)
                                          ELSE mp3data)]
    /\ UNCHANGED <<mp3Input, lameLoaded, frameStart, fedFrames>>
    /\ UNCHANGED <<schedVars, ttsVars, recVars, segVars, sceneVars, readVars, configVars,
                   liveVars, callVars, previewVars, drawVars, loopVars>>

Mp3Next ==
    \/ EncodeStart
    \/ \E size \in EncoderSizes : EncodeFrame(size)
    \/ \E size \in EncoderSizes : FlushAndSettle(size)

(***************************************************************************)
(* Live conversation (App.tsx): startLiveConversation, startMicrophoneStream *)
(* and stopLiveConversation, acting on the playback scheduler.             *)
(***************************************************************************)
LiveIdle ==
    /\ livePc = "idle"
    /\ liveSession = "none"
    /\ isLiveSessionActive = FALSE
    /\ microphoneStream = FALSE
    /\ scriptProcessor = FALSE
    /\ liveStarts = 0
    /\ teardown = <<>>

\* The live button: disabled={isLoading || isAudiobookGenerating ||
\* isPlayingVideo || isRecordingVideo}
LiveButtonEnabled ==
    ~isLoading /\ ~isAudiobookGenerating /\ ~isPlayingVideo /\ ~isRecordingVideo

\* The parts of the state no handler of the live conversation writes.
liveRest == <<audiobookScrollStartTime, lastSceneChangeTimestamp,
              currentHighlightedLineIndex, currentHighlightedWordIndex,
              currentAudiobookSceneIndex, isPlayingVideo, selectedVideoCodec,
              mediaRecorder, recordedChunks, delivered, effectsDue, savesPending,
              hasSavePicker, recordedBlob, recordings, lastStop, readRest,
              ttsVars, segVars, sceneVars, configVars, mp3Vars, callVars, previewVars, drawVars, loopVars>>

\* startLiveConversation up to the await of the session: the loading flag is
\* set, stopAllAudioSources() runs, the connection is requested.
StartLiveConversation ==
    /\ ~Draining
    /\ livePc = "idle"
    /\ LiveButtonEnabled /\ ~isLiveSessionActive
    /\ liveStarts < MaxLiveStarts
    /\ liveStarts' = liveStarts + 1
    /\ error' = "none"
    /\ isLoading' = TRUE
    /\ StopThenPlay(1, <<>>)
    /\ microphoneStream' = FALSE
    /\ scriptProcessor' = FALSE
    /\ livePc' = "connecting"
    /\ teardown' = <<>>
    /\ UNCHANGED <<liveSession, isLiveSessionActive, isAudiobookPlaying, isRecordingVideo,
                   isAudiobookPlaybackPaused, isAudiobookGenerating>>
    /\ UNCHANGED liveRest

\* The session promise is fulfilled: the session is kept, the active flag is
\* set, and startMicrophoneStream asks for the microphone.
SessionConnected ==
    /\ ~Draining
    /\ livePc = "connecting"
    /\ liveSession' = "open"
    /\ isLiveSessionActive' = TRUE
    /\ livePc' = "gettingMedia"
    /\ UNCHANGED <<microphoneStream, scriptProcessor, liveStarts, teardown>>
    /\ UNCHANGED <<schedRest, isAudiobookPlaying, isRecordingVideo, isLoading, error,
                   isAudiobookPlaybackPaused, isAudiobookGenerating>>
    /\ UNCHANGED liveRest

\* The session promise is rejected: the catch block of startLiveConversation
\* reports the error and clears the flags.
ConnectFailed ==
    /\ ~Draining
    /\ livePc = "connecting"
    /\ error' = "liveSession"
    /\ isLoading' = FALSE
    /\ isAudiobookGenerating' = FALSE
    /\ isAudiobookPlaying' = FALSE
    /\ isAudiobookPlaybackPaused' = FALSE
    /\ isRecordingVideo' = FALSE
    /\ isLiveSessionActive' = FALSE
    /\ livePc' = "idle"
    /\ UNCHANGED <<liveSession, microphoneStream, scriptProcessor, liveStarts, teardown>>
    /\ UNCHANGED schedRest
    /\ UNCHANGED liveRest

\* getUserMedia is fulfilled: startMicrophoneStream keeps the stream and
\* connects the processor, whatever happened to the session meanwhile; then
\* the finally block of startLiveConversation clears the loading flag.
MicrophoneGranted ==
    /\ ~Draining
    /\ livePc = "gettingMedia"
    /\ audioContextState = "running"
    /\ microphoneStream' = TRUE
    /\ scriptProcessor' = TRUE
    /\ isLoading' = FALSE
    /\ livePc' = "idle"
    /\ UNCHANGED <<liveSession, isLiveSessionActive, liveStarts, teardown>>
    /\ UNCHANGED <<schedRest, isAudiobookPlaying, isRecordingVideo, error,
                   isAudiobookPlaybackPaused, isAudiobookGenerating>>
    /\ UNCHANGED liveRest

\* getUserMedia is rejected: the catch block of startMicrophoneStream calls
\* handleApiError; the session stays as it is.
MicrophoneDenied ==
    /\ ~Draining
    /\ livePc = "gettingMedia"
    /\ audioContextState = "running"
    /\ error' = "microphone"
    /\ isLoading' = FALSE
    /\ isAudiobookGenerating' = FALSE
    /\ isAudiobookPlaying' = FALSE
    /\ isAudiobookPlaybackPaused' = FALSE
    /\ isRecordingVideo' = FALSE
    /\ livePc' = "idle"
    /\ UNCHANGED <<liveSession, isLiveSessionActive, microphoneStream, scriptProcessor,
                   liveStarts, teardown>>
    /\ UNCHANGED schedRest
    /\ UNCHANGED liveRest

\* stopLiveConversation(), from the live button or from the onSessionError
\* and onSessionClose callbacks of an open session: stopAllAudio(),
\* stopMicrophoneStream(), the session closed and forgotten, the flags
\* cleared. The audio context is left open.
StopLiveConversation ==
    /\ ~Draining
    /\ liveSession = "open"
    /\ StopThenPlay(1, <<>>)
    /\ isAudiobookPlaying' = FALSE
    /\ microphoneStream' = FALSE
    /\ scriptProcessor' = FALSE
    /\ liveSession' = "none"
    /\ isLiveSessionActive' = FALSE
    /\ isLoading' = FALSE
    /\ teardown' = <<"scheduler", "microphone", "session">>
    /\ UNCHANGED <<livePc, liveStarts>>
    /\ UNCHANGED <<isRecordingVideo, error, isAudiobookPlaybackPaused,
                   isAudiobookGenerating>>
    /\ UNCHANGED liveRest

\* onAudioChunk of an open session: playAudioBuffer(buffer)
OnAudioChunk ==
    /\ liveSession = "open"
    /\ \E dur \in 1..MaxDur : PlayAudioBuffer(dur, FALSE)

\* The device starts running while the component is mounted.
DeviceStarts ==
    /\ livePc # "unmounted"
    /\ ResumeResolved

\* The cleanup of the unmount effect: stopAllAudioSources(), the session
\* closed, the audio context closed; the resume() promises of a closed
\* context are rejected.
LiveUnmount ==
    /\ ~Draining
    /\ livePc # "unmounted"
    /\ livePc' = "unmounted"
    /\ stops' = stops + 1
    /\ cursorAtStop' = nextStartTime
    /\ endedPending' = endedPending \cup sourceNodes
    /\ sourceNodes' = {}
    /\ emptyings' = emptyings + emptied(sourceNodes, {})
    /\ stoppedSources' = stopEach(stoppedSources, sourceNodes)
    /\ disconnectedSources' = disconnectEach(disconnectedSources, sourceNodes)
    /\ nextStartTime' = 0
    /\ resumeWaiters' = <<>>
    /\ audioContextState' = "closed"
    /\ microphoneStream' = FALSE
    /\ scriptProcessor' = FALSE
    /\ error' = "none"
    /\ liveSession' = "none"
    /\ teardown' = <<"scheduler", "microphone", "device", "session">>
    /\ UNCHANGED <<isLiveSessionActive, liveStarts>>
    /\ UNCHANGED <<currentTime, started, submitted, finishedSignals, isAudiobookPlaying,
                   isRecordingVideo, isLoading, isAudiobookPlaybackPaused,
                   isAudiobookGenerating>>
    /\ UNCHANGED liveRest

LiveNext ==
    \/ StartLiveConversation
    \/ SessionConnected
    \/ ConnectFailed
    \/ MicrophoneGranted
    \/ MicrophoneDenied
    \/ StopLiveConversation
    \/ OnAudioChunk
    \/ DeviceStarts
    \/ PlayAfterResume
    \/ LiveUnmount

(***************************************************************************)
(* The render frame: background hue, waveform colour and particles, drawn  *)
(* with the toggles of the closure animate runs in.                        *)
(***************************************************************************)
SpawnThreshold == 60
ParticlesPerFrame == 2
BaseSpeed == 2
FullScale == 255

\* What the analyser can report: amplitudes at and above the threshold,
\* mean frequencies of 0 and a third of the scale.
Amplitudes == {SpawnThreshold, SpawnThreshold + 1}
Frequencies == {0, 85}

\* A new particle: it starts at the bottom edge; Math.random() decides how
\* much faster than BaseSpeed it rises and how long it lives. Position and
\* velocity along x, radius, colour and alpha take no part in the culling.
Particle(extraSpeed, extraLife) ==
    [y |-> CanvasHeight, vy |-> 0 - (BaseSpeed + extraSpeed), life |-> 0,
     maxLife |-> BaseLife + extraLife]

FreshParticles == {Particle(v, l) : v \in 0..1, l \in 0..MaxExtraLife}

\* if (avgAmplitude > 60 && particlesRef.current.length < 200): two pushes
spawnParticles(list, avgAmplitude, first, second) ==
    IF avgAmplitude > SpawnThreshold /\ Len(list) < MaxParticles
    THEN list \o <<first, second>>
    ELSE list

\* p.x += p.vx; p.y += p.vy; p.life++
integrate(p) == [p EXCEPT !.y = p.y + p.vy, !.life = p.life + 1]

\* p.life > p.maxLife || p.y < 0
isDead(p) == p.life > p.maxLife \/ p.y < 0

\* particlesRef.current.forEach((p, index) => ...): forEach visits the
\* indices below the length it started with that the array still has;
\* splice(index, 1) moves the particles behind the dead one down by one.
RECURSIVE forEachParticle(_, _, _)
forEachParticle(list, index, length) ==
    IF index > length \/ index > Len(list) THEN list
    ELSE IF isDead(integrate(list[index]))
         THEN forEachParticle(SubSeq(list, 1, index - 1) \o SubSeq(list, index + 1, Len(list)),
                              index + 1, length)
         ELSE forEachParticle([list EXCEPT ![index] = integrate(list[index])],
                              index + 1, length)

\* The particle block of a frame.
particlesAfterFrame(enabled, list, avgAmplitude, first, second) ==
    IF enabled
    THEN LET spawned == spawnParticles(list, avgAmplitude, first, second)
         IN  forEachParticle(spawned, 1, Len(spawned))
    ELSE list

\* let hue = 0; if (isDynamicBackgroundEnabled) hue = (avgFrequency / 255) * 360
backgroundHue(enabled, avgFrequency) ==
    IF enabled THEN (avgFrequency * 360) \div FullScale ELSE 0

\* if (isSineWaveEffectEnabled) sineColorHue = (hue + 180) % 360
waveformHue(closure, avgFrequency) ==
    IF closure.isSineWaveEffectEnabled
    THEN (backgroundHue(closure.isDynamicBackgroundEnabled, avgFrequency) + 180) % 360
    ELSE NoHue

\* One frame of animate: the next frame is requested first, then the frame
\* is drawn with the toggles of the closure.
animate(avgAmplitude, avgFrequency, first, second) ==
    /\ framePending
    /\ sineColorHue' = waveformHue(loopEffects, avgFrequency)
    /\ particles' = particlesAfterFrame(loopEffects.isParticleEffectEnabled, particles,
                                        avgAmplitude, first, second)
    /\ UNCHANGED <<effects, toggleClicks, loopVars>>
    /\ UNCHANGED <<schedVars, ttsVars, recVars, segVars, sceneVars, readVars, configVars,
                   mp3Vars, liveVars, callVars, previewVars>>

\* A click on one of the five checkboxes: the setter, the render and the
\* visualizer effect, whose dependency drawMainVisualizer is a new function.
ToggleEffect(name) ==
    /\ Quiet
    /\ toggleClicks < MaxToggles
    /\ toggleClicks' = toggleClicks + 1
    /\ effects' = [effects EXCEPT ![name] = ~effects[name]]
    /\ UNCHANGED <<particles, sineColorHue>>
    /\ UNCHANGED <<schedVars, ttsVars, recVars, segVars, sceneVars, readVars, configVars,
                   mp3Vars, liveVars, callVars, previewVars>>
    /\ VisualizerEffect

RenderNext ==
    \/ \E name \in EffectNames : ToggleEffect(name)
    \/ ReadAloud
    \/ AudiobookEnded
    \/ \E avgAmplitude \in Amplitudes, avgFrequency \in Frequencies,
          first \in FreshParticles, second \in FreshParticles :
          animate(avgAmplitude, avgFrequency, first, second)

(***************************************************************************)
(* Specifications: one per component, the others at rest.                  *)
(***************************************************************************)
SchedIdle == SchedInit /\ audioContextState = "suspended"

InitSched == SchedInit /\ TtsInit /\ RecIdle /\ SegIdle /\ SceneIdle /\ ReadInit /\ ConfigInit /\ Mp3Idle
    /\ LiveIdle /\ CallsInit /\ PreviewInit /\ RenderInit
SpecSched == InitSched /\ [][SchedNext]_vars

SpecResume == InitSched /\ [][ResumeNext]_vars

InitTts == SchedIdle /\ TtsInit /\ RecIdle /\ SegIdle /\ SceneIdle /\ ReadInit /\ ConfigInit /\ Mp3Idle
    /\ LiveIdle /\ CallsInit /\ PreviewInit /\ RenderInit
SpecTts == InitTts /\ [][TtsNext]_vars

InitRec == SchedIdle /\ TtsInit /\ RecInit /\ SegIdle /\ SceneIdle /\ ReadInit /\ ConfigInit /\ Mp3Idle
    /\ LiveIdle /\ CallsInit /\ PreviewInit /\ RenderInit
SpecRec == InitRec /\ [][RecNext]_vars

InitSeg == SchedIdle /\ TtsInit /\ RecIdle /\ SegInit /\ SceneIdle /\ ReadInit /\ ConfigInit /\ Mp3Idle
    /\ LiveIdle /\ CallsInit /\ PreviewInit /\ RenderInit
SpecSeg == InitSeg /\ [][SegNext]_vars

InitScene == SchedIdle /\ TtsInit /\ RecIdle /\ SegIdle /\ SceneInit /\ ReadInit /\ ConfigInit /\ Mp3Idle
    /\ LiveIdle /\ CallsInit /\ PreviewInit /\ RenderInit
SpecScene == InitScene /\ [][SceneNext]_vars

\* The render loop requests its next frame at the start of every frame, and
\* the audio clock advances while the session plays.
SpecSceneFair ==
    /\ InitScene /\ [][SceneNext]_vars
    /\ WF_vars(SceneFrame) /\ WF_vars(SceneClockTick)

InitRead ==
    /\ SchedInit /\ TtsInit /\ RecIdle /\ SceneIdle /\ ReadInit /\ ConfigInit /\ Mp3Idle
    /\ LiveIdle /\ CallsInit /\ PreviewInit /\ RenderInit
    /\ SegInit /\ textInput = TwoWords /\ totalAudiobookDuration = OneSecond
SpecRead == InitRead /\ [][ReadNext]_vars

InitStart == SchedIdle /\ TtsInit /\ StartInit /\ SegIdle /\ SceneIdle /\ ReadInit /\ Mp3Idle
    /\ LiveIdle /\ CallsInit /\ PreviewInit /\ RenderInit
SpecStart == InitStart /\ [][StartNext]_vars

InitMp3 ==
    /\ SchedIdle /\ TtsInit /\ RecIdle /\ SegIdle /\ SceneIdle /\ ReadInit /\ ConfigInit
    /\ Mp3Init /\ LiveIdle /\ CallsInit /\ PreviewInit /\ RenderInit
SpecMp3 == InitMp3 /\ [][Mp3Next]_vars

InitLive ==
    /\ SchedInit /\ TtsInit /\ RecIdle /\ SegIdle /\ SceneIdle /\ ReadInit /\ ConfigInit
    /\ Mp3Idle /\ LiveIdle /\ CallsInit /\ PreviewInit /\ RenderInit
SpecLive == InitLive /\ [][LiveNext]_vars

InitWindow ==
    /\ SchedIdle /\ TtsInit /\ RecIdle /\ WindowInit /\ SceneIdle /\ ReadInit /\ ConfigInit
    /\ Mp3Idle /\ LiveIdle /\ CallsInit /\ PreviewInit /\ RenderInit
SpecWindow == InitWindow /\ [][SegNext]_vars

InitRender ==
    /\ SchedInit /\ audioContextState = "running"
    /\ TtsInit /\ RecIdle /\ SegIdle /\ SceneIdle /\ ReadInit /\ ConfigInit
    /\ Mp3Idle /\ LiveIdle /\ CallsInit /\ PreviewInit /\ RenderInit
SpecRender == InitRender /\ [][RenderNext]_vars

\* The capture pipeline with an audio device that runs, so that the render
\* loop is started for whatever plays.
InitCapture ==
    /\ SchedInit /\ audioContextState = "running"
    /\ TtsInit /\ RecInit /\ SegIdle /\ SceneIdle /\ ReadInit /\ ConfigInit
    /\ Mp3Idle /\ LiveIdle /\ CallsInit /\ PreviewInit /\ RenderInit
SpecCapture == InitCapture /\ [][RecNext]_vars

InitPreview ==
    /\ SchedInit /\ TtsInit /\ RecIdle /\ SegIdle /\ SceneIdle /\ ReadInit /\ ConfigInit
    /\ Mp3Idle /\ LiveIdle /\ CallsInit /\ PreviewInit /\ RenderInit
SpecPreview == InitPreview /\ [][PreviewNext]_vars

InitCalls ==
    /\ SchedIdle /\ TtsInit /\ RecIdle /\ SegIdle /\ SceneIdle /\ ReadInit /\ ConfigInit
    /\ Mp3Idle /\ LiveIdle /\ CallsInit /\ PreviewInit /\ RenderInit
SpecCalls == InitCalls /\ [][CallsNext]_vars

(***************************************************************************)
(* Properties of the playback scheduler.                                   *)
(***************************************************************************)
StartedIdx == 1..Len(started)
EndOf(i) == started[i].start + started[i].dur

\* C1 as stated: of two chunks submitted one after the other with no
\* stopAllAudio in between, the second starts exactly where the first ends,
\* whatever the clock did between the submissions.
C1_GaplessForAnyClock ==
    \A i \in StartedIdx :
        (i + 1 \in StartedIdx /\ started[i].subEpoch = started[i + 1].subEpoch)
            => started[i + 1].start = EndOf(i)

\* C1 amended: with no stopAllAudio between two consecutive chunks, the
\* second starts at the later of the end of the first and the audio clock at
\* the moment it is scheduled; so it starts exactly at the end of the first
\* whenever the clock has not passed that end.
C1_GaplessUnlessUnderrun ==
    \A i \in StartedIdx :
        (i + 1 \in StartedIdx /\ started[i].epoch = started[i + 1].epoch)
            => /\ started[i + 1].start = Max(EndOf(i), started[i + 1].at)
               /\ (started[i + 1].at <= EndOf(i) => started[i + 1].start = EndOf(i))

\* Two chunks of one run, the second scheduled while the first was still
\* ahead of the clock, and a run in which the clock had passed the cursor.
C1_Witness ==
    \E i \in StartedIdx :
        /\ i + 1 \in StartedIdx
        /\ started[i].epoch = started[i + 1].epoch
        /\ started[i + 1].at > started[i].at
        /\ started[i + 1].at < EndOf(i)
        /\ started[i + 1].start = EndOf(i)

\* The first source started after a stopAllAudio.
FirstAfterStop(i) ==
    /\ i \in StartedIdx
    /\ started[i].epoch >= 1
    /\ (i = 1 \/ started[i - 1].epoch < started[i].epoch)

C3_SubmissionOrder ==
    \A i, j \in StartedIdx :
        /\ (i < j => started[i].chunk < started[j].chunk)
        /\ (started[i].chunk < started[j].chunk
              /\ started[i].subEpoch = started[j].subEpoch)
            => started[i].start < started[j].start

\* Two calls that were suspended at the resume await at the same time and
\* have both been scheduled.
C3_Witness ==
    \E i, j \in StartedIdx :
        /\ started[i].chunk < started[j].chunk
        /\ started[i].resumed /\ started[j].resumed
        /\ started[i].subEpoch = started[j].subEpoch
        /\ started[i].at = started[j].at
        /\ started[i].start < started[j].start

(***************************************************************************)
(* Properties of generateTextToSpeech.                                     *)
(***************************************************************************)
FragmentsOf(n) == SelectSeq(audioBuffers, LAMBDA f : f[1] = n)
Failed(n) == n \in 1..Len(ttsOutcomes) /\ ttsOutcomes[n] \in ErrorKinds

\* C4: when the first two attempts fail and the third succeeds, the caller
\* receives the third attempt's result and no error, after exactly two waits,
\* of 1s and then 2s.
C4_ThirdAttemptResult ==
    (ttsPc = "returned" /\ Len(ttsOutcomes) = 3 /\ Failed(1) /\ Failed(2))
        => /\ ttsError = NoError
           /\ ttsWaits = <<1000, 2000>>
           /\ ttsResult = FragmentsOf(3)

\* C5: when every attempt fails there are exactly 3 attempts, the error of
\* the last one is raised, the waits are 1s and 2s with none after the final
\* failure, and there is never a fourth attempt.
C5_ThreeAttemptsThenError ==
    /\ Len(ttsOutcomes) <= 3
    /\ attempts <= 2
    /\ (ttsPc = "waiting" => Len(ttsOutcomes) < 3)
    /\ ttsPc = "threw"
        => /\ Len(ttsOutcomes) = 3
           /\ \A n \in 1..3 : Failed(n)
           /\ ttsError = [attempt |-> 3, kind |-> ttsOutcomes[3]]
           /\ ttsWaits = <<1000, 2000>>
           /\ ttsResult = <<>>

\* All three attempts failed, with different errors, and the call has thrown.
C5_Witness ==
    /\ ttsPc = "threw"
    /\ Len(ttsOutcomes) = 3
    /\ ttsOutcomes[1] # ttsOutcomes[3]
    /\ ttsError.kind = ttsOutcomes[3]


(***************************************************************************)
(* Capture pipeline claims (SpecRec).                                      *)
(***************************************************************************)
HasData(size) == size > 0

\* C6: when a recording stops, an empty chunk list makes the stop handler
\* report the empty-capture error and build no artifact; a non-empty list makes
\* it build one artifact of positive size whose type is the MIME type of the
\* codec that was selected when the recording started.
C6_StopOutcome ==
    lastStop # NoStop =>
        IF lastStop.chunks = <<>>
        THEN lastStop.error = "emptyCapture" /\ recordedBlob = NoBlob
        ELSE /\ lastStop.error # "emptyCapture"
             /\ recordedBlob # NoBlob
             /\ recordedBlob.size > 0
             /\ recordedBlob.type = mimeTypeOf(lastStop.codec)

\* A recording with data has stopped after the selection was changed to the
\* other codec, and its artifact carries the type of the codec it started with.
C6_Witness ==
    /\ lastStop.chunks # <<>>
    /\ lastStop.selected # lastStop.codec
    /\ lastStop.selected \in VideoCodecs
    /\ recordedBlob.type = mimeTypeOf(lastStop.codec)
    /\ recordedBlob.type # mimeTypeOf(lastStop.selected)

\* C7: the artifact of a recording consists of the delivered chunks that carry
\* data, in arrival order, each exactly once; its size is the sum of the sizes
\* of the delivered chunks.
C7_ArtifactIsConcatenation ==
    (lastStop # NoStop /\ \E k \in 1..Len(lastStop.delivered) : HasData(lastStop.delivered[k])) =>
        /\ recordedBlob.parts = SelectSeq(lastStop.delivered, HasData)
        /\ recordedBlob.size = SumSeq(lastStop.delivered)

\* Chunks of 10, 20 and 30 bytes were delivered and the artifact has 60 bytes.
C7_Witness ==
    /\ lastStop.delivered = <<10, 20, 30>>
    /\ recordedBlob.parts = <<10, 20, 30>>
    /\ recordedBlob.size = 60


(***************************************************************************)
(* Caption timing claims (SpecSeg).                                        *)
(***************************************************************************)
LineIdx == 1..Len(audiobookLinesWithTiming)
LastLineEnd == audiobookLinesWithTiming[Len(audiobookLinesWithTiming)].relativeEndTime
Looked == segmented /\ captionTime # NoTime /\ audiobookLinesWithTiming # <<>>

\* C8: the line segments are contiguous: the first line starts at 0, the end
\* of every line is its start plus its duration, and the end of every line is
\* the start of the next one.
C8_LinesContiguous ==
    (segmented /\ audiobookLinesWithTiming # <<>>) =>
        /\ audiobookLinesWithTiming[1].relativeStartTime = 0
        /\ \A i \in LineIdx :
              audiobookLinesWithTiming[i].relativeEndTime =
                  FAdd(audiobookLinesWithTiming[i].relativeStartTime,
                       audiobookLinesWithTiming[i].duration)
        /\ \A i \in LineIdx :
              i < Len(audiobookLinesWithTiming) =>
                  audiobookLinesWithTiming[i].relativeEndTime =
                      audiobookLinesWithTiming[i + 1].relativeStartTime

\* A text of three lines, of several words each or not, has been segmented.
C8_Witness ==
    /\ segmented
    /\ Len(audiobookLinesWithTiming) >= 3
    /\ audiobookLinesWithTiming[2].relativeStartTime > 0
    /\ audiobookLinesWithTiming[3].relativeStartTime
          > audiobookLinesWithTiming[2].relativeStartTime

\* C9: for a text with a non-blank line the durations of the lines sum to the
\* total duration, so that the last line ends at the total duration (up to the
\* rounding of the additions made: one spacing for each).
C9_DurationsSumToTotal ==
    (segmented /\ audiobookLinesWithTiming # <<>>) =>
        LET slack == (Len(textInput) + 1) * Spacing(totalAudiobookDuration)
        IN  /\ LastLineEnd <= totalAudiobookDuration + slack
            /\ LastLineEnd >= totalAudiobookDuration - slack

\* C10: a lookup at a time from 0 up to the end of the last line finds exactly
\* the line whose range holds the time and, in it, a word whose range holds
\* the time within the line; a lookup at a negative time, or at or after the
\* end of the last line, finds neither.
C10_LookupFindsLineAndWord ==
    Looked =>
        IF captionTime >= 0 /\ captionTime < LastLineEnd
        THEN /\ currentLineIndex # -1
             /\ currentWordIndex # -1
             /\ \A i \in LineIdx :
                   (i - 1 = currentLineIndex) <=>
                       /\ audiobookLinesWithTiming[i].relativeStartTime <= captionTime
                       /\ captionTime < audiobookLinesWithTiming[i].relativeEndTime
        ELSE currentLineIndex = -1 /\ currentWordIndex = -1


\* C11: the text "Hello world. Bye now." with a total duration of 4.0 seconds
\* is segmented into exactly two lines.
C11_HelloWorldTwoLines ==
    (segmented /\ textInput = HelloWorld /\ totalAudiobookDuration = HelloWorldDuration) =>
        Len(audiobookLinesWithTiming) = 2

\* C12: for a text with a non-blank line, the lookup at time 0 finds line 0
\* and word 0.
C12_LookupAtZero ==
    (Looked /\ captionTime = 0) => (currentLineIndex = 0 /\ currentWordIndex = 0)

\* The lookup at time 0 has run on a table of two lines whose first line has
\* several words.
C12_Witness ==
    /\ Looked /\ captionTime = 0
    /\ Len(audiobookLinesWithTiming) >= 2
    /\ Len(audiobookLinesWithTiming[1].words) >= 2
    /\ currentLineIndex = 0 /\ currentWordIndex = 0


(***************************************************************************)
(* Scene crossfade claims (SpecScene).                                     *)
(***************************************************************************)
\* C13: with zero or one scene image no fade is ever active.
C13_NoFadeBelowTwoImages ==
    audiobookSceneImageCount <= 1 => ~audiobookFadeState.active

\* A session with one image has been running for longer than its scene
\* duration, frames have been drawn, and no fade is active.
C13_Witness ==
    /\ audiobookSceneImageCount = 1
    /\ isAudiobookPlaying
    /\ audiobookPcmDuration > 0
    /\ currentTime - lastSceneChangeTimestamp > audiobookPcmDuration
    /\ sceneFrames >= 2
    /\ ~audiobookFadeState.active


(***************************************************************************)
(* Playback scheduler claims, second group (SpecSched).                    *)
(***************************************************************************)
\* C14: every time the set of live sources of an audiobook session goes from
\* non-empty to empty the playback-finished side effects run exactly once:
\* once the 'ended' events of the stopped sources are delivered, the side
\* effects have run as many times as the set was emptied.
C14_FinishedOncePerEmptying ==
    endedPending = {} => finishedSignals = emptyings

\* C15: when stopAllAudio returns, every source that was in the set has been
\* stopped and disconnected, the set is empty and the cursor is 0, for any
\* number of live sources.
C15_StopAllHaltsEverySource ==
    [][stops' # stops =>
          /\ sourceNodes \subseteq stoppedSources'
          /\ sourceNodes \subseteq disconnectedSources'
          /\ sourceNodes' = {}
          /\ nextStartTime' = 0]_vars

\* stopAllAudio has stopped two live sources at once.
C15_Witness ==
    /\ stops = 1
    /\ Cardinality(stoppedSources) = 2
    /\ disconnectedSources = stoppedSources
    /\ endedPending = stoppedSources
    /\ sourceNodes = {}
    /\ nextStartTime = 0

\* C16: between two consecutive stopAllAudio calls the cursor never
\* decreases; after each playAudioBuffer it is that chunk's start time plus
\* its duration; only playAudioBuffer and stopAllAudio change it.
C16_CursorDiscipline ==
    [][/\ stops' = stops => nextStartTime' >= nextStartTime
       /\ Len(started') # Len(started) =>
             LET chunk == started'[Len(started')]
             IN  nextStartTime' = chunk.start + chunk.dur
       /\ nextStartTime' # nextStartTime =>
             (Len(started') # Len(started) \/ stops' # stops)]_vars

\* Two chunks were scheduled with no stop in between, the second after the
\* clock had advanced, and the cursor stands at the end of the second.
C16_Witness ==
    /\ stops = 0
    /\ Len(started) = 2
    /\ started[2].at > started[1].at
    /\ nextStartTime = started[2].start + started[2].dur
    /\ nextStartTime > started[1].start + started[1].dur

(***************************************************************************)
(* Audiobook session claims (SpecRead).                                    *)
(***************************************************************************)
\* The last resume is settled: none of the playAudioBuffer calls is waiting
\* for the device and no stopAllAudio came after it.
ResumeSettled ==
    /\ lastResume # NoResume
    /\ resumeWaiters = <<>>
    /\ stops = lastResume.epoch

\* The sources started for the chunks the last resume submitted.
ResumedSources ==
    LET IsResumed(r) == r.chunk >= lastResume.first
                        /\ r.chunk < lastResume.first + Len(lastResume.queue)
    IN  SelectSeq(started, IsResumed)

\* C17: a pause halts all sources and keeps the chunk queue; a following
\* resume submits exactly the chunks of that queue, each once and in order,
\* the first starting at the clock time and the rest back-to-back after it.
C17_PauseKeepsQueueResumeReplays ==
    [][/\ lastPause' # lastPause =>
             /\ sourceNodes' = {}
             /\ sourceNodes \subseteq stoppedSources'
             /\ audiobookPcmBuffers' = audiobookPcmBuffers
       /\ lastResume' # lastResume =>
             /\ lastResume'.queue = lastPause.queue
             /\ submitted' = submitted + Len(lastPause.queue)
       /\ ResumeSettled' =>
             (LET S == ResumedSources
                  queue == lastResume.queue
              IN  /\ Len(S) = Len(queue)
                  /\ \A k \in 1..Len(S) :
                        /\ S[k].chunk = lastResume.first + k - 1
                        /\ S[k].dur = queue[k]
                        /\ k = 1 => S[k].start = S[k].at
                        /\ k > 1 => S[k].start = S[k - 1].start + S[k - 1].dur)']_vars

\* C20: after an error is reported through handleApiError the scheduler is
\* halted (the set of live sources is empty), the loading, generating,
\* playing, paused and recording flags are false, no recorder is recording
\* and an error message is set.
C20_ErrorHaltsEverything ==
    [][errorsReported' # errorsReported =>
          /\ sourceNodes' = {}
          /\ ~isLoading' /\ ~isAudiobookGenerating' /\ ~isAudiobookPlaying'
          /\ ~isAudiobookPlaybackPaused' /\ ~isRecordingVideo'
          /\ mediaRecorder'.state # "recording"
          /\ error' # "none"]_vars

(***************************************************************************)
(* Capture pipeline claims, second group (SpecStart).                      *)
(***************************************************************************)
\* C18: startRecordingVideo called while neither a video nor an audiobook
\* plays, or with a resolution, codec or bitrate that is in no table,
\* reports an error, creates no recorder and leaves the recording flag
\* false.
C18_StartRejected ==
    [][(/\ startCalls' # startCalls
        /\ \/ ~isPlayingVideo /\ ~isAudiobookPlaying
           \/ selectedVideoResolution \notin VideoResolutions
           \/ selectedVideoCodec \notin VideoCodecs
           \/ selectedVideoBitrate \notin VideoBitrates)
       => /\ error' # "none"
          /\ mediaRecorder' = NoRecorder
          /\ recordings' = recordings
          /\ ~isRecordingVideo']_vars

\* A call made while a video plays, with a bitrate of no table and the other
\* two selections valid, was rejected.
C18_Witness ==
    /\ startCalls = 1
    /\ isPlayingVideo
    /\ selectedVideoBitrate \notin VideoBitrates
    /\ selectedVideoResolution \in VideoResolutions
    /\ selectedVideoCodec \in VideoCodecs
    /\ error = "startFailed"
    /\ mediaRecorder = NoRecorder
    /\ ~isRecordingVideo /\ ~isLoading

(***************************************************************************)
(* MP3 export claims (SpecMp3).                                            *)
(***************************************************************************)
\* The frames passed to the encoder, one after the other.
RECURSIVE Flatten(_)
Flatten(frames) == IF frames = <<>> THEN <<>> ELSE Head(frames) \o Flatten(Tail(frames))

\* The chunk that holds the j-th sample of the whole list, and the samples
\* before that chunk.
ChunkOf(input, j) ==
    CHOOSE k \in 1..Len(input) :
        /\ SumSeq(SubSeq(input, 1, k - 1)) < j
        /\ j <= SumSeq(SubSeq(input, 1, k))
SamplesBefore(input, k) == SumSeq(SubSeq(input, 1, k - 1))

\* The converted samples of all chunks in list order.
SamplesInOrder(input) ==
    [j \in 1..SumSeq(input) |->
        LET k == ChunkOf(input, j)
        IN  toInt16(channelData(k, input[k])[j - SamplesBefore(input, k)])]

\* C19: with the library loaded, encodePCMToMP3 passes the samples of all
\* chunks in list order, each once, as frames of 1152 samples of which only
\* the last may be shorter, then flushes once; it rejects, with no blob,
\* exactly when the encoder and the flush returned no byte.
C19_FramesInOrderFlushOnce ==
    (mp3Pc = "settled" /\ lameLoaded) =>
        /\ Flatten(fedFrames) = SamplesInOrder(mp3Input)
        /\ \A f \in 1..Len(fedFrames) :
              /\ Len(fedFrames[f]) >= 1
              /\ Len(fedFrames[f]) <= MAX_CHUNK_SIZE
              /\ f < Len(fedFrames) => Len(fedFrames[f]) = MAX_CHUNK_SIZE
        /\ flushes = 1
        /\ Len(encoderOutputs) = Len(fedFrames) + 1
        /\ mp3Result.kind = "rejected" <=> SumSeq(encoderOutputs) = 0
        /\ mp3Result.kind = "resolved" => mp3Result.size = SumSeq(encoderOutputs)

\* Two chunks that do not end on a frame boundary were encoded in three
\* frames, and the encoder returned bytes for some frames only.
C19_Witness ==
    /\ mp3Pc = "settled" /\ lameLoaded
    /\ Len(mp3Input) = 2
    /\ mp3Input[1] = MAX_CHUNK_SIZE + 1
    /\ mp3Input[2] = MAX_CHUNK_SIZE
    /\ Len(fedFrames) = 3
    /\ Len(fedFrames[3]) = 1
    /\ encoderOutputs[1] = 0 /\ encoderOutputs[2] > 0
    /\ mp3Result.kind = "resolved"

(***************************************************************************)
(* Capture pipeline claims, third group (SpecRec).                         *)
(***************************************************************************)
\* C21: when the recorder reported an error during a recording, the stop
\* handler of that recording assembles no artifact and offers none for
\* saving, also when the stop event comes after the error event.
C21_ErrorDiscardsRecording ==
    (lastStop # NoStop /\ lastStop.error = "recorderError") => recordedBlob = NoBlob

(***************************************************************************)
(* Synthesis claims, second group (SpecTts).                               *)
(***************************************************************************)
FatalKinds == {"quota", "safety"}

\* C22: an attempt that fails with a content-policy or a quota/billing error
\* is the last one: generateTextToSpeech throws that error after it, with no
\* wait and no further attempt; only network failures are retried.
C22_FatalErrorsNotRetried ==
    \A i \in 1..Len(ttsOutcomes) :
        ttsOutcomes[i] \in FatalKinds =>
            /\ i = Len(ttsOutcomes)
            /\ Len(ttsWaits) = i - 1
            /\ ttsPc = "threw"
            /\ ttsError.kind = ttsOutcomes[i]

(***************************************************************************)
(* The scheduler and the output device (SpecResume).                       *)
(***************************************************************************)
\* The calls of playAudioBuffer that ended with an error: neither started
\* nor still waiting for the device.
FailedCalls ==
    {c \in 1..submitted :
        /\ \A s \in 1..Len(started) : started[s].chunk # c
        /\ \A w \in 1..Len(resumeWaiters) : resumeWaiters[w].chunk # c}

C24_StopDiscardsPendingChunks ==
    \A s \in 1..Len(started) : started[s].subEpoch = started[s].epoch

(***************************************************************************)
(* Live conversation (SpecLive).                                           *)
(***************************************************************************)
Position(seq, x) == CHOOSE i \in 1..Len(seq) : seq[i] = x

\* C25: a stop of the live conversation halts the scheduler, then stops the
\* microphone, then releases the device; once it has completed, and until
\* the next start, the scheduler is not halted with the microphone stream
\* or its processor live or with the device still held.
C25_TeardownOrderAndCompleteness ==
    teardown # <<>> =>
        /\ Position(teardown, "scheduler") < Position(teardown, "microphone")
        /\ sourceNodes = {} => /\ ~microphoneStream
                               /\ ~scriptProcessor
                               /\ audioContextState = "closed"

(***************************************************************************)
(* Caption clock of the audiobook session (SpecRead).                      *)
(***************************************************************************)
\* The sources of the running session: the audiobook chunks submitted since
\* the last stop, in the order they were started.
SessionSources ==
    LET InSession(r) == r.audiobook /\ r.subEpoch = stops
    IN  SelectSeq(started, InSession)

\* C26: while an audiobook session plays, after a start as after a resume,
\* the origin of the caption clock is the scheduled start time of the
\* session's first chunk.
C26_CaptionOriginIsFirstChunkStart ==
    (isAudiobookPlaying /\ SessionSources # <<>>) =>
        audiobookScrollStartTime = SessionSources[1].start

C28_TriggerAdvancesByOne ==
    [][(~audiobookFadeState.active /\ audiobookFadeState'.active) =>
          currentAudiobookSceneIndex' =
              (currentAudiobookSceneIndex + 1) % audiobookSceneImageCount]_vars

\* C29: a fade that started at s is drawn with progress min(1, (now - s) / 1.0),
\* the old image at 1 - progress and the new one at progress; no second fade
\* starts while one is active; the frame that draws progress 1 makes the fade
\* state absent and drops the old image; and while the session plays and its
\* frames keep running every fade ends.
C29_FadeProgressAndEnd ==
    /\ [](fadeDrawn # NoDrawn =>
            /\ fadeDrawn.newImageOpacity = Min(FadeTicks, fadeDrawn.at - fadeDrawn.startTime)
            /\ fadeDrawn.oldImageOpacity = FadeTicks - fadeDrawn.newImageOpacity)
    /\ [][/\ (audiobookFadeState.active /\ audiobookFadeState'.active)
                => audiobookFadeState'.startTime = audiobookFadeState.startTime
          /\ (fadeDrawn' # fadeDrawn /\ fadeDrawn' # NoDrawn)
                => IF fadeDrawn'.at - fadeDrawn'.startTime >= FadeTicks
                   THEN /\ audiobookFadeState' = NoFade
                        /\ previousLoadedAudiobookImage' = NoImage
                   ELSE audiobookFadeState'.active]_vars
    /\ audiobookFadeState.active ~>
          \/ ~audiobookFadeState.active
          \/ ~isAudiobookPlaying \/ audiobookSceneImageCount = 0
          \/ /\ currentTime = MaxSceneClock
             /\ currentTime - audiobookFadeState.startTime < FadeTicks

\* A frame drew a fade at progress 1, exactly one second after its start, and
\* left the fade state absent and the old image dropped.
C29_Witness ==
    /\ fadeDrawn # NoDrawn
    /\ fadeDrawn.newImageOpacity = FadeTicks
    /\ fadeDrawn.at = fadeDrawn.startTime + FadeTicks
    /\ audiobookFadeState = NoFade
    /\ previousLoadedAudiobookImage = NoImage
    /\ isAudiobookPlaying

(***************************************************************************)
(* Tokens of a line (SpecSeg).                                             *)
(***************************************************************************)
\* C30: trailing punctuation is a token of its own: every token of a line
\* that ends with a punctuation mark consists of punctuation marks only, and
\* lasts the fixed 0.25 s.
C30_TrailingPunctuationIsOwnToken ==
    segmented =>
        \A l \in 1..Len(audiobookLinesWithTiming) :
            \A k \in 1..Len(audiobookLinesWithTiming[l].words) :
                LET token == audiobookLinesWithTiming[l].words[k]
                IN  (token.word # <<>> /\ IsPunctuation(token.word[Len(token.word)])) =>
                        /\ \A c \in 1..Len(token.word) : IsPunctuation(token.word[c])
                        /\ token.endTime = FAdd(token.startTime, Hundredths(25))

(***************************************************************************)
(* Properties of the caption window.                                       *)
(***************************************************************************)
\* C34: whenever the lookup finds a current line c among n caption lines,
\* the displayed window is a run of exactly min(3, n) consecutive line
\* indices within 0..n-1 that contains c, with c in the middle position
\* whenever 0 < c < n-1; when no current line is found no line is displayed.
C34_WindowAroundCurrentLine ==
    LET c == currentLineIndex
        n == Len(audiobookLinesWithTiming)
        w == linesToDisplayIndices
    IN  Looked =>
          IF c = -1 THEN w = <<>>
          ELSE /\ Len(w) = Min(3, n)
               /\ \A k \in 1..Len(w) : w[k] \in 0..(n - 1)
               /\ \A k \in 1..(Len(w) - 1) : w[k + 1] = w[k] + 1
               /\ \E k \in 1..Len(w) : w[k] = c
               /\ (0 < c /\ c < n - 1) => w[2] = c

\* The last of five lines is current: the window was extended backwards.
C34_Witness ==
    /\ Looked /\ Len(audiobookLinesWithTiming) = 5
    /\ currentLineIndex = 4
    /\ linesToDisplayIndices = <<2, 3, 4>>

(***************************************************************************)
(* Properties of the render frame.                                         *)
(***************************************************************************)
\* C31: after every frame the particle collection holds at most the cap of
\* particles (200 in the source), for any sequence of amplitude values and
\* any number of frames.
C31_ParticleCountWithinCap == Len(particles) <= MaxParticles

\* The particle list as it is after a frame in which every particle is
\* integrated once and every dead one is removed.
IntegratedAndCulled(list) ==
    LET moved == [k \in 1..Len(list) |-> integrate(list[k])]
    IN  SelectSeq(moved, LAMBDA p : ~isDead(p))

\* C32: in every frame with the particle effect enabled, each particle in
\* the collection, the new ones included, is integrated exactly once, and
\* every particle that is dead after that integration is removed in the
\* same frame, also when several particles die in the same frame.
C32_EachParticleIntegratedOnce ==
    [][(framePending /\ loopEffects.isParticleEffectEnabled /\ particles' # particles)
         => \E avgAmplitude \in Amplitudes, first \in FreshParticles, second \in FreshParticles :
               particles' = IntegratedAndCulled(
                               spawnParticles(particles, avgAmplitude, first, second))]_vars

\* The toggles with one of them flipped.
Flipped(closure, name) == [closure EXCEPT ![name] = ~closure[name]]

\* C33: for any frame and any analyser input, two renderer runs whose
\* configurations differ in exactly one effect toggle compute identical
\* values for every other effect: the same waveform colour and the same
\* particle collection.
C33_TogglesAreIndependent ==
    framePending =>
      \A name \in EffectNames, avgAmplitude \in Amplitudes, avgFrequency \in Frequencies,
         first \in FreshParticles, second \in FreshParticles :
         /\ name # "isSineWaveEffectEnabled" =>
               waveformHue(Flipped(loopEffects, name), avgFrequency)
                 = waveformHue(loopEffects, avgFrequency)
         /\ name # "isParticleEffectEnabled" =>
               particlesAfterFrame(Flipped(loopEffects, name).isParticleEffectEnabled,
                                   particles, avgAmplitude, first, second)
                 = particlesAfterFrame(loopEffects.isParticleEffectEnabled,
                                       particles, avgAmplitude, first, second)

(***************************************************************************)
(* More properties of the playback scheduler.                              *)
(***************************************************************************)
\* C35: the playback intervals of the sources scheduled since the same
\* stopAllAudio never overlap: whatever the clock does between submissions,
\* each chunk starts no earlier than the end of the chunk submitted before
\* it and no earlier than the clock time at which it was scheduled, which is
\* not before the time it was submitted.
C35_IntervalsNeverOverlap ==
    /\ \A i \in StartedIdx, j \in StartedIdx :
          (started[i].epoch = started[j].epoch /\ started[i].chunk < started[j].chunk)
             => EndOf(i) <= started[j].start
    /\ \A j \in StartedIdx : started[j].start >= started[j].at

\* Two chunks of the same epoch with silence between them: the clock had
\* passed the end of the first when the second was scheduled.
C35_Witness ==
    \E i \in StartedIdx, j \in StartedIdx :
       /\ started[i].epoch = started[j].epoch
       /\ started[i].chunk < started[j].chunk
       /\ EndOf(i) < started[j].start
       /\ started[j].start = started[j].at

(***************************************************************************)
(* More properties of generateTextToSpeech.                                *)
(***************************************************************************)
\* C38: the chunk list returned by a successful call holds exactly the
\* fragments streamed by the attempt that succeeded, in stream order;
\* fragments that an earlier attempt decoded before it failed are not part
\* of the result.
C38_ResultIsTheSucceedingAttempt ==
    ttsPc = "returned" =>
        ttsResult = [k \in 1..ttsStreamed |-> <<Len(ttsOutcomes), k>>]

(***************************************************************************)
(* More properties of the capture pipeline.                                *)
(***************************************************************************)
\* C36: a recording that was started can always be stopped by the user: in
\* every reachable state in which a recording is in progress the record/stop
\* control is enabled, that is the loading flag is false.
C36_RecordingCanBeStopped ==
    (isRecordingVideo /\ mediaRecorder.state = "recording")
       => (RecordButtonEnabled /\ ~isLoading)

\* C37: while a recording is in progress and a video or an audiobook is
\* playing, the render loop is running: neither the start of a recording nor
\* the effects of its commit cancel the frame loop.
C37_RecordingKeepsTheLoop ==
    /\ []((isRecordingVideo /\ (isPlayingVideo \/ isAudiobookPlaying)) => framePending)
    /\ [][(framePending /\ (recordings' # recordings \/ (effectsDue /\ ~effectsDue')))
            => framePending']_vars

\* C39: every buffer source that has been started, the one of a voice preview
\* included, is in the active source set from its start until it ends or is
\* stopped.
C39_StartedSourcesAreTracked ==
    \A i \in StartedIdx :
        (i \notin stoppedSources /\ currentTime < EndOf(i)) => i \in sourceNodes

\* C40: a change of an effect toggle made while the render loop runs is used
\* from the next frame on: every frame the loop draws is a frame of the
\* committed toggles, for some analyser input and some fresh particles.
C40_FramesUseCommittedState ==
    [][(framePending /\ (particles' # particles \/ sineColorHue' # sineColorHue))
         => \E avgAmplitude \in Amplitudes, avgFrequency \in Frequencies,
               first \in FreshParticles, second \in FreshParticles :
               /\ sineColorHue' = waveformHue(effects, avgFrequency)
               /\ particles' = particlesAfterFrame(effects.isParticleEffectEnabled,
                                                   particles, avgAmplitude, first, second)]_vars

====
